---- MODULE Spec2Model ----
(***************************************************************************)
(* A model of zeekclient/brokertypes.py: the Broker data model (typed      *)
(* scalars, containers, Zeek events, message envelopes), its ordering,     *)
(* hashing, and its JSON wire encoding and decoding.                       *)
(*                                                                         *)
(* Representation.                                                         *)
(*   - A Python str is a sequence of one-character strings, so that it can *)
(*     be compared lexically, formatted and parsed.  Dictionary keys of    *)
(*     the wire objects are plain TLA+ strings.                            *)
(*   - A brokertype object is a record whose field kind is its class and   *)
(*     whose other fields are the attributes of its __dict__.              *)
(*   - A Python set is the sequence of its members in iteration order, a   *)
(*     dict the sequence of its (key, value) pairs in insertion order.     *)
(*   - A float is an integer number of halves (all exactly representable). *)
(*   - The result of a Python expression that may raise is either its      *)
(*     value or the name of the exception.                                 *)
(***************************************************************************)
EXTENDS Integers, Sequences, FiniteSets, TLC

VARIABLES x, y, z, op, res

vars == <<x, y, z, op, res>>

(***************************************************************************)
(* Bounds of the model.                                                    *)
(***************************************************************************)
MaxNum == 2     \* magnitude of the numeric payloads
MaxLen == 2     \* number of members of a container

(***************************************************************************)
(* Python str: comparison by code point.                                   *)
(***************************************************************************)
\* The characters the model uses, in code point order.
Chars ==
  << " ", "'", ",", "-", ".", "/", "0", "1", "2", "3", "4", "5", "6", "7", "8",
     "9", ":", "?", "@",
     "A", "B", "C", "D", "E", "F", "G", "H", "I", "J", "K", "L", "M", "N", "O",
     "P", "Q", "R", "S", "T", "U", "V", "W", "X", "Y", "Z", "[", "]",
     "a", "b", "c", "d", "e", "f", "g", "h", "i", "j", "k", "l", "m", "n", "o",
     "p", "q", "r", "s", "t", "u", "v", "w", "x", "y", "z", "{", "}" >>

Ord(c) == CHOOSE i \in 1..Len(Chars) : Chars[i] = c

RECURSIVE StrLt(_, _)
\* s < t for two Python strs.
StrLt(s, t) ==
  IF t = <<>> THEN FALSE
  ELSE IF s = <<>> THEN TRUE
  ELSE IF Head(s) # Head(t) THEN Ord(Head(s)) < Ord(Head(t))
  ELSE StrLt(Tail(s), Tail(t))

Digits == <<"0", "1", "2", "3", "4", "5", "6", "7", "8", "9">>

IsDigit(c) == \E i \in 1..10 : Digits[i] = c

DigitVal(c) == (CHOOSE i \in 1..10 : Digits[i] = c) - 1

RECURSIVE NatStr(_)
\* str(n) for n >= 0.
NatStr(n) ==
  IF n < 10 THEN <<Digits[n + 1]>>
  ELSE NatStr(n \div 10) \o <<Digits[(n % 10) + 1]>>

\* str(n), '{}'.format(n) for an int.
IntStr(n) == IF n < 0 THEN <<"-">> \o NatStr(0 - n) ELSE NatStr(n)

RECURSIVE DigitsVal(_, _)
DigitsVal(s, acc) ==
  IF s = <<>> THEN acc ELSE DigitsVal(Tail(s), 10 * acc + DigitVal(Head(s)))

AllDigits(s) == s # <<>> /\ \A i \in 1..Len(s) : IsDigit(s[i])

(***************************************************************************)
(* The classes.                                                            *)
(***************************************************************************)
ScalarKinds ==
  {"NoneType", "Boolean", "Count", "Integer", "Real", "Timespan", "String",
   "Enum", "Address", "Port"}

\* The subclasses of DataType.
DataKinds == ScalarKinds \cup {"Vector", "Set", "Table", "ZeekEvent"}

\* The other subclasses of Type.
MessageKinds ==
  {"HandshakeMessage", "HandshakeAckMessage", "DataMessage", "ErrorMessage"}

\* type(v).__name__
TypeName(v) ==
  CASE v.kind = "NoneType" -> <<"N", "o", "n", "e", "T", "y", "p", "e">>
    [] v.kind = "Boolean" -> <<"B", "o", "o", "l", "e", "a", "n">>
    [] v.kind = "Count" -> <<"C", "o", "u", "n", "t">>
    [] v.kind = "Integer" -> <<"I", "n", "t", "e", "g", "e", "r">>
    [] v.kind = "Real" -> <<"R", "e", "a", "l">>
    [] v.kind = "Timespan" -> <<"T", "i", "m", "e", "s", "p", "a", "n">>
    [] v.kind = "String" -> <<"S", "t", "r", "i", "n", "g">>
    [] v.kind = "Enum" -> <<"E", "n", "u", "m">>
    [] v.kind = "Address" -> <<"A", "d", "d", "r", "e", "s", "s">>
    [] v.kind = "Port" -> <<"P", "o", "r", "t">>
    [] v.kind = "Vector" -> <<"V", "e", "c", "t", "o", "r">>
    [] v.kind = "Set" -> <<"S", "e", "t">>
    [] v.kind = "Table" -> <<"T", "a", "b", "l", "e">>
    [] v.kind = "ZeekEvent" ->
         <<"Z", "e", "e", "k", "E", "v", "e", "n", "t">>
    [] OTHER -> <<"o", "t", "h", "e", "r">>

\* isinstance(v, DataType)
IsDataType(v) == v.kind \in DataKinds

\* isinstance(v, Type)
IsType(v) == v.kind \in DataKinds \cup MessageKinds

\* isinstance(v, Vector): ZeekEvent derives from Vector.
IsVector(v) == v.kind \in {"Vector", "ZeekEvent"}

(***************************************************************************)
(* Constructed objects.                                                    *)
(***************************************************************************)
None == [kind |-> "NoneType"]
Boolean(b) == [kind |-> "Boolean", value |-> b]
Count(n) == [kind |-> "Count", value |-> n]
Integer(n) == [kind |-> "Integer", value |-> n]
Real(h) == [kind |-> "Real", value |-> h]
Timespan(n, u) == [kind |-> "Timespan", value |-> n, unit |-> u]
String(s) == [kind |-> "String", value |-> s]
Enum(s) == [kind |-> "Enum", value |-> s]
Address(s) == [kind |-> "Address", value |-> s]
Port(n, p) == [kind |-> "Port", number |-> n, proto |-> p]
Vector(es) == [kind |-> "Vector", elements |-> es]
Set(es) == [kind |-> "Set", elements |-> es]
Table(ps) == [kind |-> "Table", elements |-> ps]
ZeekEvent(name, args) ==
  [kind |-> "ZeekEvent", elements |-> <<>>, name |-> name, args |-> args]
HandshakeMessage(ts) == [kind |-> "HandshakeMessage", topics |-> ts]
HandshakeAckMessage(e, v) ==
  [kind |-> "HandshakeAckMessage", endpoint |-> e, version |-> v]
DataMessage(t, d) == [kind |-> "DataMessage", topic |-> t, data |-> d]
ErrorMessage(c, ctx) == [kind |-> "ErrorMessage", code |-> c, context |-> ctx]

\* Timespan.Unit and Port.Proto: the members and their values.
Units == {"NS", "MS", "S", "MIN", "H", "D"}

UnitValue(u) ==
  CASE u = "NS" -> <<"n", "s">>
    [] u = "MS" -> <<"m", "s">>
    [] u = "S" -> <<"s">>
    [] u = "MIN" -> <<"m", "i", "n">>
    [] u = "H" -> <<"h">>
    [] u = "D" -> <<"d">>

Protos == {"UNKNOWN", "TCP", "UDP", "ICMP"}

ProtoValue(p) ==
  CASE p = "UNKNOWN" -> <<"?">>
    [] p = "TCP" -> <<"t", "c", "p">>
    [] p = "UDP" -> <<"u", "d", "p">>
    [] p = "ICMP" -> <<"i", "c", "m", "p">>

(***************************************************************************)
(* Native values: the Python values that json.loads returns and json.dumps *)
(* takes, which are also what the constructors of the message classes      *)
(* store unchecked.  JRaise stands for an exception raised while such a    *)
(* value was being built.                                                  *)
(***************************************************************************)
JObj(m) == [j |-> "obj", m |-> m]
JArr(a) == [j |-> "arr", a |-> a]
JStr(s) == [j |-> "str", s |-> s]
JInt(n) == [j |-> "int", n |-> n]
JFloat(h) == [j |-> "float", h |-> h]
JBool(b) == [j |-> "bool", b |-> b]
JNull == [j |-> "null"]
JRaise(e) == [j |-> "raise", exc |-> e]
\* A member of one of the enum classes Timespan.Unit and Port.Proto.
JEnum(c, m) == [j |-> "enum", cls |-> c, member |-> m]
\* Python values that no JSON text denotes: a tuple, a set (in its
\* iteration order), an ipaddress object, and the complex number 1j.
JTuple(a) == [j |-> "tuple", a |-> a]
JSet(a) == [j |-> "set", a |-> a]
JIP(s) == [j |-> "ip", s |-> s]
JComplex == [j |-> "complex"]
\* A dict whose keys are no strs, as the sequence of its items.
JDict(a) == [j |-> "dict", a |-> a]

EmptyDict == [k \in {} |-> JNull]

IsNumber(a) == a.j \in {"int", "float", "bool"}

\* The value of a number, in halves.
Halves(a) ==
  CASE a.j = "int" -> 2 * a.n
    [] a.j = "float" -> a.h
    [] a.j = "bool" -> IF a.b THEN 2 ELSE 0

RECURSIVE NativeEq(_, _)
\* a == b for two native values: 1 == True == 1.0.
NativeEq(a, b) ==
  IF IsNumber(a) /\ IsNumber(b) THEN Halves(a) = Halves(b)
  ELSE IF a.j # b.j THEN FALSE
  ELSE CASE a.j = "arr" ->
              /\ Len(a.a) = Len(b.a)
              /\ \A i \in 1..Len(a.a) : NativeEq(a.a[i], b.a[i])
         [] a.j = "obj" ->
              /\ DOMAIN a.m = DOMAIN b.m
              /\ \A k \in DOMAIN a.m : NativeEq(a.m[k], b.m[k])
         [] a.j = "str" -> a.s = b.s
         [] a.j = "null" -> TRUE

(***************************************************************************)
(* Equality: Type.__eq__ compares the two __dict__ attribute by attribute, *)
(* with the equality of the attribute values (int, str, enum member, list, *)
(* set, dict).  Objects of two classes compare by identity, so never equal.*)
(***************************************************************************)
RECURSIVE PyEq(_, _), ListEq(_, _), SetEq(_, _), DictEq(_, _)

\* list == list: same length, members equal pairwise.
ListEq(a, b) ==
  /\ Len(a) = Len(b)
  /\ \A i \in 1..Len(a) : PyEq(a[i], b[i])

\* set == set: same length, every member of one is in the other.
SetEq(a, b) ==
  /\ Len(a) = Len(b)
  /\ \A i \in 1..Len(a) : \E j \in 1..Len(b) : PyEq(a[i], b[j])

\* dict == dict: same length, every key of one is a key of the other, with
\* an equal value.
DictEq(a, b) ==
  /\ Len(a) = Len(b)
  /\ \A i \in 1..Len(a) :
       \E j \in 1..Len(b) : PyEq(a[i].key, b[j].key) /\ PyEq(a[i].val, b[j].val)

\* a == b for two objects of the module.
PyEq(a, b) ==
  IF a.kind # b.kind THEN FALSE
  ELSE CASE a.kind = "NoneType" -> TRUE
         [] a.kind \in {"Boolean", "Count", "Integer", "Real", "String",
                        "Enum", "Address"} -> a.value = b.value
         [] a.kind = "Timespan" -> a.value = b.value /\ a.unit = b.unit
         [] a.kind = "Port" -> a.number = b.number /\ a.proto = b.proto
         [] a.kind = "Vector" -> ListEq(a.elements, b.elements)
         [] a.kind = "Set" -> SetEq(a.elements, b.elements)
         [] a.kind = "Table" -> DictEq(a.elements, b.elements)
         [] a.kind = "ZeekEvent" ->
              /\ ListEq(a.elements, b.elements)
              /\ a.name = b.name
              /\ ListEq(a.args, b.args)
         [] a.kind = "HandshakeMessage" -> a.topics = b.topics
         [] a.kind = "HandshakeAckMessage" ->
              NativeEq(a.endpoint, b.endpoint) /\ NativeEq(a.version, b.version)
         [] a.kind = "DataMessage" ->
              NativeEq(a.topic, b.topic) /\ PyEq(a.data, b.data)
         [] a.kind = "ErrorMessage" ->
              NativeEq(a.code, b.code) /\ NativeEq(a.context, b.context)
         [] OTHER -> a = b

(***************************************************************************)
(* Ordering.  The result of a comparison is "True", "False", the exception *)
(* "TypeError", or (for a __lt__ method) "NotImplemented".                 *)
(***************************************************************************)
PyBool(b) == IF b THEN "True" ELSE "False"

\* DataType.__lt__ with the order of the class names reversed.
DataType__lt__Reversed(self, other) ==
  IF ~IsDataType(other) THEN "TypeError"
  ELSE IF self.kind # other.kind
         THEN PyBool(StrLt(TypeName(other), TypeName(self)))
         ELSE "NotImplemented"

\* DataType.__lt__ without the isinstance test.
DataType__lt__Unchecked(self, other) ==
  IF self.kind # other.kind
    THEN PyBool(StrLt(TypeName(self), TypeName(other)))
    ELSE "NotImplemented"

DataType__lt__(self, other) ==
  IF ~IsDataType(other) THEN "TypeError"
  ELSE IF self.kind # other.kind
         THEN PyBool(StrLt(TypeName(self), TypeName(other)))
         ELSE "NotImplemented"

NoneType__lt__(self, other) ==
  LET r == DataType__lt__(self, other)
  IN  IF r # "NotImplemented" THEN r ELSE "False"

\* Boolean, Count, Integer and Real compare their _value: False < True.
BoolInt(b) == IF b THEN 1 ELSE 0

Boolean__lt__(self, other) ==
  LET r == DataType__lt__(self, other)
  IN  IF r # "NotImplemented" THEN r
      ELSE PyBool(BoolInt(self.value) < BoolInt(other.value))

Number__lt__(self, other) ==
  LET r == DataType__lt__(self, other)
  IN  IF r # "NotImplemented" THEN r ELSE PyBool(self.value < other.value)

\* Timespan.to_secs: the float as <<whole seconds, millionths>>.  The factors
\* are those of the source: 1e-06 for NS, 1e-03 for MS.
to_secs(self) ==
  CASE self.unit = "NS" -> <<self.value \div 1000000, self.value % 1000000>>
    [] self.unit = "MS" ->
         <<self.value \div 1000, (self.value % 1000) * 1000>>
    [] self.unit = "S" -> <<self.value, 0>>
    [] self.unit = "MIN" -> <<self.value * 60, 0>>
    [] self.unit = "H" -> <<self.value * 60 * 60, 0>>
    [] self.unit = "D" -> <<self.value * 60 * 60 * 24, 0>>

\* float < float for two results of to_secs.
SecsLt(a, b) == a[1] < b[1] \/ (a[1] = b[1] /\ a[2] < b[2])

Timespan__lt__(self, other) ==
  LET r == DataType__lt__(self, other)
  IN  IF r # "NotImplemented" THEN r
      ELSE PyBool(SecsLt(to_secs(self), to_secs(other)))

\* String, Enum and Address compare their _value as str.
Text__lt__(self, other) ==
  LET r == DataType__lt__(self, other)
  IN  IF r # "NotImplemented" THEN r
      ELSE PyBool(StrLt(self.value, other.value))

\* order.index(proto.value) in Port.__lt__, order = ['?', 'tcp', 'udp', 'icmp']
ProtoIndex(p) ==
  CASE p = "UNKNOWN" -> 0 [] p = "TCP" -> 1 [] p = "UDP" -> 2 [] p = "ICMP" -> 3

Port__lt__(self, other) ==
  LET r == DataType__lt__(self, other)
  IN  IF r # "NotImplemented" THEN r
      ELSE IF ProtoIndex(self.proto) < ProtoIndex(other.proto) THEN "True"
      ELSE PyBool(self.number < other.number)

RECURSIVE PyLt(_, _), ZipLt(_, _, _), Vector__lt__(_, _), Set__lt__(_, _),
          Table__lt__(_, _), TableZipLt(_, _, _, _, _), BinarySearch(_, _, _, _),
          BinarySort(_, _), RunEnd(_, _, _, _), sorted(_), Method__lt__(_, _)

\* The __lt__ method of type(self).  ZeekEvent inherits Vector.__lt__; the
\* classes outside DataType inherit object.__lt__.
Method__lt__(self, other) ==
  CASE self.kind = "NoneType" -> NoneType__lt__(self, other)
    [] self.kind = "Boolean" -> Boolean__lt__(self, other)
    [] self.kind \in {"Count", "Integer", "Real"} -> Number__lt__(self, other)
    [] self.kind = "Timespan" -> Timespan__lt__(self, other)
    [] self.kind \in {"String", "Enum", "Address"} -> Text__lt__(self, other)
    [] self.kind = "Port" -> Port__lt__(self, other)
    [] self.kind \in {"Vector", "ZeekEvent"} -> Vector__lt__(self, other)
    [] self.kind = "Set" -> Set__lt__(self, other)
    [] self.kind = "Table" -> Table__lt__(self, other)
    [] OTHER -> "NotImplemented"

\* r, unless r is skip: then rest.
Unless(r, skip, rest) == IF r # skip THEN r ELSE rest

\* The expression a < b, where at least one of a and b is an object of the
\* module: a.__lt__(b) and, when that is NotImplemented, the reflected
\* b.__gt__(a), which no class of the module defines (object.__gt__ returns
\* NotImplemented, as do int.__gt__ and bool.__gt__ for such an operand);
\* then the interpreter raises TypeError.
PyLt(a, b) == Unless(Method__lt__(a, b), "NotImplemented", "TypeError")

\* The loop "for el1, el2 in zip(a, b): if el1 < el2: return True" from
\* position i on: "True" when it returns, "False" when it falls through.
ZipLt(a, b, i) ==
  IF i > Len(a) \/ i > Len(b) THEN "False"
  ELSE Unless(PyLt(a[i], b[i]), "False", ZipLt(a, b, i + 1))

Vector__lt__(self, other) ==
  Unless(DataType__lt__(self, other), "NotImplemented",
         Unless(ZipLt(self.elements, other.elements, 1), "False",
                PyBool(Len(self.elements) < Len(other.elements))))

(***************************************************************************)
(* sorted(): CPython's list sort for fewer than 64 members, a binary       *)
(* insertion sort that starts from the leading run.  With a "<" that is    *)
(* not a strict weak order its result depends on the order of its input.   *)
(* A sequence is returned as [ok |-> TRUE, val |-> ...], an exception of a *)
(* comparison as [ok |-> FALSE, exc |-> ...].                              *)
(***************************************************************************)
Ok(v) == [ok |-> TRUE, val |-> v]

\* An exception and what its message says.
RaiseMsg(e, m) == [ok |-> FALSE, exc |-> e, msg |-> m]

Raise(e) == RaiseMsg(e, "")

Reverse(s) == [i \in 1..Len(s) |-> s[Len(s) + 1 - i]]

\* count_run after the comparison c of a[i] with a[i-1].
RunEndStep(c, a, i, desc, n) ==
  IF c = "TypeError" THEN 0
  ELSE IF (c = "True") = desc THEN RunEnd(a, i + 1, desc, n)
  ELSE i - 1

\* count_run: the last index of the run that starts at a[1], a[2] and goes
\* on while a[i] < a[i-1] is desc; 0 when a comparison raises.
RunEnd(a, i, desc, n) ==
  IF i > n THEN n ELSE RunEndStep(PyLt(a[i], a[i - 1]), a, i, desc, n)

\* The search after the comparison c of pivot with a[p].
BinarySearchStep(c, a, pivot, l, p, r) ==
  IF c = "TypeError" THEN 0
  ELSE IF c = "True" THEN BinarySearch(a, pivot, l, p)
  ELSE BinarySearch(a, pivot, p + 1, r)

\* binarysort's search of the place of pivot in the sorted a[l..r-1]; 0 when a
\* comparison raises.
BinarySearch(a, pivot, l, r) ==
  IF l >= r THEN l
  ELSE BinarySearchStep(PyLt(pivot, a[l + ((r - l) \div 2)]), a, pivot, l,
                        l + ((r - l) \div 2), r)

\* a[start] inserted at l, then the members that follow it.
BinarySortStep(l, a, start) ==
  IF l = 0 THEN Raise("TypeError")
  ELSE BinarySort(SubSeq(a, 1, l - 1) \o <<a[start]>>
                    \o SubSeq(a, l, start - 1)
                    \o SubSeq(a, start + 1, Len(a)),
                  start + 1)

\* binarysort: a[1..start-1] is sorted, insert a[start], a[start+1], ...
BinarySort(a, start) ==
  IF start > Len(a) THEN Ok(a)
  ELSE BinarySortStep(BinarySearch(a, a[start], 1, start), a, start)

\* The sort after count_run has found the run a[1..n]: a descending run is
\* reversed.
SortRun(n, desc, a) ==
  IF n = 0 THEN Raise("TypeError")
  ELSE BinarySort(IF desc
                    THEN Reverse(SubSeq(a, 1, n)) \o SubSeq(a, n + 1, Len(a))
                    ELSE a,
                  n + 1)

\* The sort after the comparison c of a[2] with a[1].
SortFrom(c, a) ==
  IF c = "TypeError" THEN Raise("TypeError")
  ELSE SortRun(RunEnd(a, 3, c = "True", Len(a)), c = "True", a)

sorted(a) == IF Len(a) < 2 THEN Ok(a) ELSE SortFrom(PyLt(a[2], a[1]), a)

\* zip(s1, s2) of the two sorted lists, once both are there.
SetZipLt(s1, s2, self, other) ==
  IF ~s1.ok THEN s1.exc
  ELSE IF ~s2.ok THEN s2.exc
  ELSE Unless(ZipLt(s1.val, s2.val, 1), "False",
              PyBool(Len(self.elements) < Len(other.elements)))

Set__lt__(self, other) ==
  Unless(DataType__lt__(self, other), "NotImplemented",
         SetZipLt(sorted(self.elements), sorted(other.elements), self, other))

\* list(d), d.keys(): the keys of a dict in insertion order.
Keys(d) == [i \in 1..Len(d) |-> d[i].key]

\* d[k] for a key k of d.
Lookup(d, k) == d[CHOOSE i \in 1..Len(d) : PyEq(d[i].key, k)].val

\* The loop of Table.__lt__ over zip(sorted(self), sorted(other)).
TableZipLt(d1, d2, k1, k2, i) ==
  IF i > Len(k1) \/ i > Len(k2) THEN "False"
  ELSE Unless(PyLt(k1[i], k2[i]), "False",
              Unless(PyLt(Lookup(d1, k1[i]), Lookup(d2, k2[i])), "False",
                     TableZipLt(d1, d2, k1, k2, i + 1)))

\* The loop over the two sorted key lists, once both are there.
TableSortedLt(s1, s2, self, other) ==
  IF ~s1.ok THEN s1.exc
  ELSE IF ~s2.ok THEN s2.exc
  ELSE Unless(TableZipLt(self.elements, other.elements, s1.val, s2.val, 1),
              "False", PyBool(Len(self.elements) < Len(other.elements)))

Table__lt__(self, other) ==
  Unless(DataType__lt__(self, other), "NotImplemented",
         TableSortedLt(sorted(Keys(self.elements)),
                       sorted(Keys(other.elements)), self, other))

(***************************************************************************)
(* to_broker: from an object to the native value that json.dumps takes.    *)
(***************************************************************************)
\* The first exception among the documents of a sequence, as the loop or
\* comprehension that builds them raises it; JNull when there is none.
FirstRaise(a) ==
  IF \E i \in 1..Len(a) : a[i].j = "raise"
    THEN a[CHOOSE i \in 1..Len(a) :
             a[i].j = "raise" /\ \A k \in 1..(i - 1) : a[k].j # "raise"]
    ELSE JNull

\* {'@data-type': tag, 'data': data}
Envelope(tag, data) ==
  IF data.j = "raise" THEN data
  ELSE JObj(("@data-type" :> JStr(tag)) @@ ("data" :> data))

\* A list built from the documents of its members.
ArrOf(a) == IF FirstRaise(a).j = "raise" THEN FirstRaise(a) ELSE JArr(a)

\* F of the sorted members, or the exception of a comparison.
OfSorted(s, F(_)) == IF ~s.ok THEN JRaise(s.exc) ELSE F(s.val)

\* {'key': k, 'value': w}
Entry(k, w) ==
  IF k.j = "raise" THEN k
  ELSE IF w.j = "raise" THEN w
  ELSE JObj(("key" :> k) @@ ("value" :> w))

\* The data message that bdata, the payload's document, is flattened into.
Flatten(topic, bdata) ==
  IF bdata.j = "raise" THEN bdata
  ELSE IF bdata.j # "obj" THEN JRaise("TypeError")
  ELSE IF "@data-type" \notin DOMAIN bdata.m THEN JRaise("KeyError")
  ELSE JObj(("type" :> JStr(<<"d", "a", "t", "a", "-", "m", "e", "s", "s", "a",
                              "g", "e">>))
              @@ ("topic" :> topic)
              @@ ("@data-type" :> bdata.m["@data-type"])
              @@ ("data" :> bdata.m["data"]))

RECURSIVE to_broker(_)
\* v.to_broker()
to_broker(v) ==
  CASE v.kind = "NoneType" ->
         Envelope(<<"n", "o", "n", "e">>, JObj(EmptyDict))
    [] v.kind = "Boolean" ->
         Envelope(<<"b", "o", "o", "l", "e", "a", "n">>, JBool(v.value))
    [] v.kind = "Count" ->
         Envelope(<<"c", "o", "u", "n", "t">>, JInt(v.value))
    [] v.kind = "Integer" ->
         Envelope(<<"i", "n", "t", "e", "g", "e", "r">>, JInt(v.value))
    [] v.kind = "Real" -> Envelope(<<"r", "e", "a", "l">>, JFloat(v.value))
    [] v.kind = "Timespan" ->
         Envelope(<<"t", "i", "m", "e", "s", "t", "p", "a", "n">>,
                  JStr(IntStr(v.value) \o UnitValue(v.unit)))
    [] v.kind = "String" ->
         Envelope(<<"s", "t", "r", "i", "n", "g">>, JStr(v.value))
    [] v.kind = "Enum" ->
         Envelope(<<"e", "n", "u", "m", "-", "v", "a", "l", "u", "e">>,
                  JStr(v.value))
    [] v.kind = "Address" ->
         Envelope(<<"a", "d", "d", "r", "e", "s", "s">>, JStr(v.value))
    [] v.kind = "Port" ->
         Envelope(<<"p", "o", "r", "t">>,
                  JStr(IntStr(v.number) \o <<"/">> \o ProtoValue(v.proto)))
    [] v.kind = "Vector" ->
         Envelope(<<"v", "e", "c", "t", "o", "r">>,
                  ArrOf([i \in 1..Len(v.elements) |-> to_broker(v.elements[i])]))
    [] v.kind = "Set" ->
         OfSorted(sorted(v.elements),
                  LAMBDA es :
                    Envelope(<<"s", "e", "t">>,
                             ArrOf([i \in 1..Len(es) |-> to_broker(es[i])])))
    [] v.kind = "Table" ->
         OfSorted(sorted(Keys(v.elements)),
                  LAMBDA ks :
                    Envelope(
                      <<"t", "a", "b", "l", "e">>,
                      ArrOf([i \in 1..Len(ks) |->
                               Entry(to_broker(ks[i]),
                                     to_broker(Lookup(v.elements, ks[i])))])))
    [] v.kind = "ZeekEvent" ->
         Envelope(
           <<"v", "e", "c", "t", "o", "r">>,
           ArrOf(<<Envelope(<<"c", "o", "u", "n", "t">>, JInt(1)),
                   Envelope(<<"c", "o", "u", "n", "t">>, JInt(1)),
                   Envelope(
                     <<"v", "e", "c", "t", "o", "r">>,
                     ArrOf(<<to_broker(String(v.name)),
                             Envelope(<<"v", "e", "c", "t", "o", "r">>,
                                      ArrOf([i \in 1..Len(v.args) |->
                                               to_broker(v.args[i])]))>>))>>))
    [] v.kind = "HandshakeMessage" ->
         JArr([i \in 1..Len(v.topics) |-> JStr(v.topics[i])])
    [] v.kind = "HandshakeAckMessage" ->
         JObj(("type" :> JStr(<<"a", "c", "k">>))
                @@ ("endpoint" :> v.endpoint)
                @@ ("version" :> v.version))
    [] v.kind = "DataMessage" ->
         Flatten(v.topic, to_broker(v.data))
    [] v.kind = "ErrorMessage" ->
         JObj(("type" :> JStr(<<"e", "r", "r", "o", "r">>))
                @@ ("code" :> v.code)
                @@ ("context" :> v.context))

(***************************************************************************)
(* Hashing.  A hash is represented by the Python value that is hashed, so  *)
(* that two hashes of the model are equal exactly when Python guarantees   *)
(* them equal: hash(1) == hash(True) == hash(1.0), a tuple hashes by the   *)
(* hashes of its members, an object without __hash__ of its own (Table     *)
(* hashes a generator object) hashes by its address.  The addresses of the *)
(* generator objects a call creates are the inputs g.                      *)
(***************************************************************************)
MaxAddr == 2    \* number of addresses a generator object can get

Addresses == 1..MaxAddr

RECURSIVE Generators(_), SumGenerators(_)

SumGenerators(elems) ==
  IF elems = <<>> THEN 0
  ELSE Generators(Head(elems)) + SumGenerators(Tail(elems))

\* The number of generator objects that hash(v) creates: one for each call of
\* Table.__hash__.
Generators(v) ==
  CASE v.kind = "Table" -> 1
    [] v.kind \in {"Vector", "Set", "ZeekEvent"} -> SumGenerators(v.elements)
    [] OTHER -> 0

\* The address of each generator object of one call of hash(v), in the order
\* in which they are created.
AddressSeqs(v) == [1..Generators(v) -> Addresses]

HNum(halves) == <<"num", halves>>

\* What a call returns and the addresses it has not used.
HashOk(h, g) == [ok |-> TRUE, val |-> h, g |-> g]

RECURSIVE HashFrom(_, _), HashTuple(_, _, _)

\* hash(tuple(elems)): the members are hashed from first to last.
HashTuple(elems, acc, g) ==
  IF elems = <<>> THEN HashOk(<<"tuple", acc>>, g)
  ELSE LET h == HashFrom(Head(elems), g)
       IN  IF ~h.ok THEN h
           ELSE HashTuple(Tail(elems), Append(acc, h.val), h.g)

\* Table.__hash__: hash() of the generator object, which is never run.
Table__hash__(self, g) == HashOk(<<"object", Head(g)>>, Tail(g))

\* hash(v) with the addresses g
HashFrom(v, g) ==
  CASE v.kind = "NoneType" -> HashOk(<<"None">>, g)
    [] v.kind = "Boolean" -> HashOk(HNum(2 * BoolInt(v.value)), g)
    [] v.kind \in {"Count", "Integer"} -> HashOk(HNum(2 * v.value), g)
    [] v.kind = "Real" -> HashOk(HNum(v.value), g)
    [] v.kind = "Timespan" ->
         HashOk(<<"tuple", <<HNum(2 * v.value), <<"enum", v.unit>>>>>>, g)
    [] v.kind \in {"String", "Enum", "Address"} -> HashOk(<<"str", v.value>>, g)
    [] v.kind = "Port" ->
         HashOk(<<"tuple", <<HNum(2 * v.number), <<"enum", v.proto>>>>>>, g)
    [] v.kind \in {"Vector", "ZeekEvent"} -> HashTuple(v.elements, <<>>, g)
    [] v.kind = "Set" ->
         LET s == sorted(v.elements)
         IN  IF ~s.ok THEN Raise(s.exc) ELSE HashTuple(s.val, <<>>, g)
    [] v.kind = "Table" -> Table__hash__(v, g)
    [] OTHER -> Raise("TypeError")

\* hash(v): the hash, or the exception.
Hash(v, g) ==
  LET h == HashFrom(v, g) IN IF h.ok THEN Ok(h.val) ELSE Raise(h.exc)

(***************************************************************************)
(* JSON text.  A text is the sequence of its tokens: the punctuation, the  *)
(* string literals, the number literals and the three names.               *)
(***************************************************************************)
Tok(t, s) == [t |-> t, s |-> s]

Punct(t) == Tok(t, <<>>)

\* The keys of the wire objects, in code point order.
SortedKeys ==
  <<"@data-type", "code", "context", "data", "endpoint", "key", "topic",
    "type", "value", "version">>

KeyText(k) ==
  CASE k = "@data-type" -> <<"@", "d", "a", "t", "a", "-", "t", "y", "p", "e">>
    [] k = "code" -> <<"c", "o", "d", "e">>
    [] k = "context" -> <<"c", "o", "n", "t", "e", "x", "t">>
    [] k = "data" -> <<"d", "a", "t", "a">>
    [] k = "endpoint" -> <<"e", "n", "d", "p", "o", "i", "n", "t">>
    [] k = "key" -> <<"k", "e", "y">>
    [] k = "topic" -> <<"t", "o", "p", "i", "c">>
    [] k = "type" -> <<"t", "y", "p", "e">>
    [] k = "value" -> <<"v", "a", "l", "u", "e">>
    [] k = "version" -> <<"v", "e", "r", "s", "i", "o", "n">>

Abs(n) == IF n < 0 THEN 0 - n ELSE n

\* repr(f) of a float.
FloatStr(h) ==
  IF h % 2 = 0 THEN IntStr(h \div 2) \o <<".", "0">>
  ELSE (IF h < 0 THEN <<"-">> ELSE <<>>) \o NatStr(Abs(h) \div 2) \o <<".", "5">>

RECURSIVE dumps(_), dumpsMembers(_, _, _), dumpsItems(_, _)
\* json.dumps(d, sort_keys=True)
dumps(d) ==
  CASE d.j = "obj" /\ DOMAIN d.m \subseteq {SortedKeys[i] : i \in DOMAIN SortedKeys} ->
         <<Punct("{")>> \o dumpsMembers(d.m, 1, TRUE) \o <<Punct("}")>>
    [] d.j = "arr" -> <<Punct("[")>> \o dumpsItems(d.a, 1) \o <<Punct("]")>>
    [] d.j = "str" -> <<Tok("str", d.s)>>
    [] d.j = "int" -> <<Tok("num", IntStr(d.n))>>
    [] d.j = "float" -> <<Tok("num", FloatStr(d.h))>>
    [] d.j = "bool" -> <<Punct(IF d.b THEN "true" ELSE "false")>>
    [] d.j = "null" -> <<Punct("null")>>

dumpsMembers(m, i, first) ==
  IF i > Len(SortedKeys) THEN <<>>
  ELSE IF SortedKeys[i] \notin DOMAIN m THEN dumpsMembers(m, i + 1, first)
  ELSE (IF first THEN <<>> ELSE <<Punct(",")>>)
         \o <<Tok("str", KeyText(SortedKeys[i])), Punct(":")>>
         \o dumps(m[SortedKeys[i]])
         \o dumpsMembers(m, i + 1, FALSE)

dumpsItems(a, i) ==
  IF i > Len(a) THEN <<>>
  ELSE (IF i = 1 THEN <<>> ELSE <<Punct(",")>>) \o dumps(a[i])
         \o dumpsItems(a, i + 1)

\* The outcome of parsing a prefix of a text.
Parsed(v, rest) == [ok |-> TRUE, val |-> v, rest |-> rest]

NotParsed == [ok |-> FALSE]

\* The number a number literal denotes: a float when it has a fraction.
ParseNumber(s) ==
  LET neg == s # <<>> /\ Head(s) = "-"
      u == IF neg THEN Tail(s) ELSE s
      dot == IF \E i \in 1..Len(u) : u[i] = "."
               THEN CHOOSE i \in 1..Len(u) : u[i] = "." ELSE 0
  IN  IF dot = 0 THEN JInt((IF neg THEN 0 - 1 ELSE 1) * DigitsVal(u, 0))
      ELSE CASE SubSeq(u, dot + 1, Len(u)) \in {<<"0">>, <<"5">>} ->
                  JFloat((IF neg THEN 0 - 1 ELSE 1)
                           * (2 * DigitsVal(SubSeq(u, 1, dot - 1), 0)
                                + (IF u[dot + 1] = "5" THEN 1 ELSE 0)))

RECURSIVE ParseValue(_), ParseMembers(_, _), ParseItems(_, _)
ParseValue(ts) ==
  IF ts = <<>> THEN NotParsed
  ELSE CASE Head(ts).t = "{" ->
              IF Len(ts) >= 2 /\ ts[2].t = "}"
                THEN Parsed(JObj(EmptyDict), Tail(Tail(ts)))
                ELSE ParseMembers(Tail(ts), EmptyDict)
         [] Head(ts).t = "[" ->
              IF Len(ts) >= 2 /\ ts[2].t = "]"
                THEN Parsed(JArr(<<>>), Tail(Tail(ts)))
                ELSE ParseItems(Tail(ts), <<>>)
         [] Head(ts).t = "str" -> Parsed(JStr(Head(ts).s), Tail(ts))
         [] Head(ts).t = "num" -> Parsed(ParseNumber(Head(ts).s), Tail(ts))
         [] Head(ts).t = "true" -> Parsed(JBool(TRUE), Tail(ts))
         [] Head(ts).t = "false" -> Parsed(JBool(FALSE), Tail(ts))
         [] Head(ts).t = "null" -> Parsed(JNull, Tail(ts))
         [] OTHER -> NotParsed

\* The key a string literal in key position denotes.
KeyOf(text) ==
  CHOOSE k \in {SortedKeys[i] : i \in DOMAIN SortedKeys} : KeyText(k) = text

\* What follows the value v of a member: the end of the object or the next
\* member.
AfterMember(v, key, m) ==
  IF ~v.ok \/ v.rest = <<>> THEN NotParsed
  ELSE IF Head(v.rest).t = "}"
    THEN Parsed(JObj((key :> v.val) @@ m), Tail(v.rest))
  ELSE IF Head(v.rest).t = ","
    THEN ParseMembers(Tail(v.rest), (key :> v.val) @@ m)
  ELSE NotParsed

\* The members of an object after its opening brace; a repeated key keeps
\* its last value.
ParseMembers(ts, m) ==
  IF Len(ts) < 2 \/ ts[1].t # "str" \/ ts[2].t # ":" THEN NotParsed
  ELSE AfterMember(ParseValue(Tail(Tail(ts))), KeyOf(ts[1].s), m)

\* What follows the member v of a list: the end of the list or the next
\* member.
AfterItem(v, a) ==
  IF ~v.ok \/ v.rest = <<>> THEN NotParsed
  ELSE IF Head(v.rest).t = "]"
    THEN Parsed(JArr(Append(a, v.val)), Tail(v.rest))
  ELSE IF Head(v.rest).t = ","
    THEN ParseItems(Tail(v.rest), Append(a, v.val))
  ELSE NotParsed

ParseItems(ts, a) == AfterItem(ParseValue(ts), a)

\* The value parsed, when it is the whole text.
WholeText(v) ==
  IF v.ok /\ v.rest = <<>> THEN Ok(v.val) ELSE Raise("JSONDecodeError")

\* json.loads(data)
loads(data) == WholeText(ParseValue(data))

(***************************************************************************)
(* The builtins the constructors and decoders apply to native values.      *)
(***************************************************************************)
\* bool(a)
bool(a) ==
  CASE a.j = "obj" -> DOMAIN a.m # {}
    [] a.j = "arr" -> a.a # <<>>
    [] a.j = "str" -> a.s # <<>>
    [] a.j = "int" -> a.n # 0
    [] a.j = "float" -> a.h # 0
    [] a.j = "bool" -> a.b
    [] a.j = "null" -> FALSE
    [] a.j \in {"enum", "ip", "complex"} -> TRUE
    [] a.j \in {"tuple", "set", "dict"} -> a.a # <<>>

IsIntText(s) ==
  \/ AllDigits(s)
  \/ s # <<>> /\ Head(s) = "-" /\ AllDigits(Tail(s))

RECURSIVE SplitFrom(_, _, _)
SplitFrom(s, sep, cur) ==
  IF s = <<>> THEN <<cur>>
  ELSE IF Head(s) = sep THEN <<cur>> \o SplitFrom(Tail(s), sep, <<>>)
  ELSE SplitFrom(Tail(s), sep, Append(cur, Head(s)))

\* s.split(sep)
Split(s, sep) == SplitFrom(s, sep, <<>>)

\* int(a) of an ipaddress object: of a dotted quad, and of the IPv6 addresses
\* that are "::" and one group of decimal digits.
IPInt(s) ==
  CASE Len(Split(s, ".")) = 4 ->
         LET o == Split(s, ".")
         IN  ((DigitsVal(o[1], 0) * 256 + DigitsVal(o[2], 0)) * 256
                + DigitsVal(o[3], 0)) * 256 + DigitsVal(o[4], 0)
    [] Len(s) = 3 /\ s[1] = ":" /\ s[2] = ":" /\ IsDigit(s[3]) -> DigitVal(s[3])

\* int(a): a float is truncated towards zero, a str is parsed.
int(a) ==
  CASE a.j = "int" -> Ok(a.n)
    [] a.j = "bool" -> Ok(IF a.b THEN 1 ELSE 0)
    [] a.j = "float" ->
         Ok(IF a.h >= 0 THEN a.h \div 2 ELSE 0 - ((0 - a.h) \div 2))
    [] a.j = "ip" -> Ok(IPInt(a.s))
    [] a.j = "str" ->
         IF IsIntText(a.s)
           THEN Ok(IF Head(a.s) = "-" THEN 0 - DigitsVal(Tail(a.s), 0)
                   ELSE DigitsVal(a.s, 0))
           ELSE Raise("ValueError")
    [] a.j \in {"null", "arr", "obj", "enum", "tuple", "set", "complex"} ->
         Raise("TypeError")

\* float(a), in halves.  Of the strs that denote a number, the decimal
\* numerals with at most one fraction digit are covered.  A str denotes no
\* number when it is empty, holds a character that no float literal holds,
\* holds two points, or holds no digit and is none of inf, infinity, nan
\* (which all hold the letter n).
float(a) ==
  CASE a.j = "int" -> Ok(2 * a.n)
    [] a.j = "bool" -> Ok(IF a.b THEN 2 ELSE 0)
    [] a.j = "float" -> Ok(a.h)
    [] a.j = "str" /\ IsIntText(a.s) -> Ok(2 * int(a).val)
    [] a.j = "str" /\ Len(a.s) > 2 /\ IsIntText(SubSeq(a.s, 1, Len(a.s) - 2))
         /\ a.s[Len(a.s) - 1] = "." /\ a.s[Len(a.s)] \in {"0", "5"} ->
         Ok(ParseNumber(a.s).h)
    [] a.j = "str"
         /\ \/ a.s = <<>>
            \/ \E i \in 1..Len(a.s) :
                 ~IsDigit(a.s[i])
                   /\ a.s[i] \notin {"-", ".", "e", "E", "i", "I", "n", "N", "f",
                                     "F", "t", "T", "y", "Y", "a", "A"}
            \/ Cardinality({i \in 1..Len(a.s) : a.s[i] = "."}) > 1
            \/ \A i \in 1..Len(a.s) :
                 ~IsDigit(a.s[i]) /\ a.s[i] \notin {"n", "N"} ->
         Raise("ValueError")
    [] a.j \in {"null", "arr", "obj", "enum", "tuple", "set", "complex", "ip"} ->
         Raise("TypeError")

RECURSIVE repr(_)
\* ', '.join(repr(a[k]) for the members of a list)
ReprItems(a) ==
  LET RECURSIVE From(_)
      From(k) ==
        IF k > Len(a) THEN <<>>
        ELSE (IF k = 1 THEN <<>> ELSE <<",", " ">>) \o repr(a[k]) \o From(k + 1)
  IN  From(1)

\* ', '.join("'k': " + repr(m[k]) for the keys of a dict).  The keys come
\* in the order of the text the dict was parsed from, in which dumps has
\* sorted them.
ReprMembers(m) ==
  LET RECURSIVE From(_, _)
      From(k, first) ==
        IF k > Len(SortedKeys) THEN <<>>
        ELSE IF SortedKeys[k] \notin DOMAIN m THEN From(k + 1, first)
        ELSE (IF first THEN <<>> ELSE <<",", " ">>)
               \o <<"'">> \o KeyText(SortedKeys[k]) \o <<"'", ":", " ">>
               \o repr(m[SortedKeys[k]]) \o From(k + 1, FALSE)
  IN  From(1, TRUE)

\* repr(a), for the strs without a quote.
repr(a) ==
  CASE a.j = "str" /\ \A i \in 1..Len(a.s) : a.s[i] # "'" ->
         <<"'">> \o a.s \o <<"'">>
    [] a.j = "int" -> IntStr(a.n)
    [] a.j = "float" -> FloatStr(a.h)
    [] a.j = "bool" -> IF a.b THEN <<"T", "r", "u", "e">>
                       ELSE <<"F", "a", "l", "s", "e">>
    [] a.j = "null" -> <<"N", "o", "n", "e">>
    [] a.j = "arr" -> <<"[">> \o ReprItems(a.a) \o <<"]">>
    [] a.j = "obj" -> <<"{">> \o ReprMembers(a.m) \o <<"}">>
    [] a.j = "complex" -> <<"1", "j">>
    [] a.j = "tuple" ->
         <<"(">> \o ReprItems(a.a) \o (IF Len(a.a) = 1 THEN <<",">> ELSE <<>>)
           \o <<")">>
    [] a.j = "set" ->
         IF a.a = <<>> THEN <<"s", "e", "t", "(", ")">>
         ELSE <<"{">> \o ReprItems(a.a) \o <<"}">>
    [] a.j = "ip" ->
         (IF \E i \in 1..Len(a.s) : a.s[i] = ":" THEN <<"I", "P", "v", "6", "A", "d", "d", "r", "e", "s", "s", "(">> ELSE <<"I", "P", "v", "4", "A", "d", "d", "r", "e", "s", "s", "(">>)
           \o <<"'">> \o a.s \o <<"'", ")">>

\* str(a)
str(a) == IF a.j \in {"str", "ip"} THEN a.s ELSE repr(a)

\* a[k] for a str k
GetItem(a, k) ==
  IF a.j = "obj" THEN IF k \in DOMAIN a.m THEN Ok(a.m[k]) ELSE Raise("KeyError")
  ELSE Raise("TypeError")

\* a[i] for an int i >= 0
GetIndex(a, i) ==
  CASE a.j = "arr" -> IF i < Len(a.a) THEN Ok(a.a[i + 1]) ELSE Raise("IndexError")
    [] a.j = "str" ->
         IF i < Len(a.s) THEN Ok(JStr(<<a.s[i + 1]>>)) ELSE Raise("IndexError")
    [] a.j = "obj" -> Raise("KeyError")
    [] OTHER -> Raise("TypeError")

\* The keys of a dict as strs, in sorted order.
KeysOf(m) ==
  LET RECURSIVE From(_)
      From(i) ==
        IF i > Len(SortedKeys) THEN <<>>
        ELSE (IF SortedKeys[i] \in DOMAIN m
                THEN <<JStr(KeyText(SortedKeys[i]))>> ELSE <<>>) \o From(i + 1)
  IN  From(1)

\* What "for elem in a" iterates over: the members of a list, the
\* characters of a str, the keys of a dict.
Iter(a) ==
  CASE a.j = "arr" -> Ok(a.a)
    [] a.j = "str" -> Ok([i \in 1..Len(a.s) |-> JStr(<<a.s[i]>>)])
    [] a.j = "obj" -> Ok(KeysOf(a.m))
    [] a.j \in {"tuple", "set"} -> Ok(a.a)
    [] OTHER -> Raise("TypeError")

\* A dotted quad: four decimal octets up to 255 without leading zeros.
IsIPv4(s) ==
  LET octets == Split(s, ".")
  IN  /\ Len(octets) = 4
      /\ \A i \in 1..4 :
           /\ AllDigits(octets[i])
           /\ Len(octets[i]) <= 3
           /\ Len(octets[i]) > 1 => Head(octets[i]) # "0"
           /\ DigitsVal(octets[i], 0) <= 255

IsHexGroup(s) ==
  /\ Len(s) \in 1..4
  /\ \A i \in 1..Len(s) :
       \/ IsDigit(s[i])
       \/ s[i] \in {"a", "b", "c", "d", "e", "f", "A", "B", "C", "D", "E", "F"}

\* Colon-separated groups of hex digits, at most one "::", and optionally
\* a dotted quad in place of the last two groups.
IsIPv6(s) ==
  LET raw == Split(s, ":")
      quad == \E i \in 1..Len(raw[Len(raw)]) : raw[Len(raw)][i] = "."
      parts == IF quad
                 THEN SubSeq(raw, 1, Len(raw) - 1) \o <<<<"0">>, <<"0">>>>
                 ELSE raw
      n == Len(parts)
      skips == {i \in 2..(n - 1) : parts[i] = <<>>}
      skip == CHOOSE i \in skips : TRUE
      hi == IF parts[1] = <<>> THEN skip - 2 ELSE skip - 1
      lo == IF parts[n] = <<>> THEN n - skip - 1 ELSE n - skip
  IN  /\ Len(raw) >= 3
      /\ quad => IsIPv4(raw[Len(raw)])
      /\ n <= 9
      /\ Cardinality(skips) <= 1
      /\ IF skips = {}
           THEN n = 8 /\ \A i \in 1..n : IsHexGroup(parts[i])
           ELSE /\ parts[1] = <<>> => skip = 2
                /\ parts[n] = <<>> => skip = n - 1
                /\ hi + lo < 8
                /\ \A i \in 1..n :
                     \/ IsHexGroup(parts[i])
                     \/ i = skip
                     \/ i = 1 /\ parts[1] = <<>>
                     \/ i = n /\ parts[n] = <<>>

\* The characters of an address without a scope.
AddrChars ==
  {".", ":", "a", "b", "c", "d", "e", "f", "A", "B", "C", "D", "E", "F"}
    \cup {Digits[i] : i \in 1..10}

\* ipaddress.ip_address(s) returns, where it otherwise raises ValueError.  No
\* address is longer than eight groups of four digits of which a dotted
\* quad replaces the last two.  Of the strs without a scope.
IsIPAddress(s) ==
  CASE \A i \in 1..Len(s) : s[i] # "%" ->
         /\ \A i \in 1..Len(s) : s[i] \in AddrChars
         /\ Len(s) <= 45
         /\ (IsIPv4(s) \/ IsIPv6(s))

(***************************************************************************)
(* Construction from a native value, as the decoders do it.  The result is *)
(* the object or the exception the constructor raises.                     *)
(***************************************************************************)
\* F of the value of r, unless evaluating r has raised.
Bind(r, F(_)) == IF r.ok THEN F(r.val) ELSE r

Boolean__init__(value) == Ok(Boolean(bool(value)))

\* Count.__init__ without the check of the sign.
Count__init__Unchecked(value) == Bind(int(value), LAMBDA n : Ok(Count(n)))

Count__init__(value) ==
  Bind(int(value),
       LAMBDA n : IF n < 0 THEN Raise("ValueError") ELSE Ok(Count(n)))

Integer__init__(value) == Bind(int(value), LAMBDA n : Ok(Integer(n)))

Real__init__(value) == Bind(float(value), LAMBDA f : Ok(Real(f)))

\* isinstance(a, c) for an enum class c
IsMember(a, c) == a.j = "enum" /\ a.cls = c

\* The value is converted before the unit is looked at.
Timespan__init__(value, unit) ==
  Bind(int(value),
       LAMBDA n : IF ~IsMember(unit, "Unit") THEN Raise("TypeError")
                  ELSE Ok(Timespan(n, unit.member)))

String__init__(value) == Ok(String(str(value)))

Enum__init__(value) == Ok(Enum(str(value)))

\* The Address of a str, when ipaddress.ip_address accepts it.
AddressOf(s) == IF IsIPAddress(s) THEN Ok(Address(s)) ELSE Raise("ValueError")

Address__init__(value) == AddressOf(str(value))

\* The number is converted, then the protocol is looked at, then the range
\* of the number.
Port__init__(number, proto) ==
  Bind(int(number),
       LAMBDA n : IF ~IsMember(proto, "Proto") THEN Raise("TypeError")
                  ELSE IF n < 1 \/ n > 65535 THEN Raise("ValueError")
                  ELSE Ok(Port(n, proto.member)))

\* name is a native value, not a String.
ZeekEvent__init__(name) == Ok(ZeekEvent(str(name), <<>>))

HandshakeMessage__init__(topics) ==
  IF ~bool(topics) THEN Ok(HandshakeMessage(<<>>))
  ELSE IF topics.j # "arr" THEN Raise("TypeError")
  ELSE IF \E i \in 1..Len(topics.a) : topics.a[i].j # "str"
    THEN Raise("TypeError")
  ELSE Ok(HandshakeMessage([i \in 1..Len(topics.a) |-> topics.a[i].s]))

(***************************************************************************)
(* check_broker_data: the layout a class requires of a decoded document.   *)
(***************************************************************************)
LayoutError == RaiseMsg("TypeError", "invalid data layout")

DataType_check_broker_data(data) ==
  IF data.j # "obj" THEN LayoutError
  ELSE IF "@data-type" \notin DOMAIN data.m \/ "data" \notin DOMAIN data.m
    THEN LayoutError
  ELSE Ok(TRUE)

MessageType_check_broker_data(data) ==
  IF data.j # "obj" THEN LayoutError
  ELSE IF "type" \notin DOMAIN data.m THEN LayoutError
  ELSE Ok(TRUE)

HandshakeMessage_check_broker_data(data) ==
  IF data.j # "arr" THEN LayoutError ELSE Ok(TRUE)

\* MessageType.check_broker_data alone.
CheckKeysTypeOnly(data, keys) == MessageType_check_broker_data(data)

\* MessageType.check_broker_data, then every required key.
CheckKeys(data, keys) ==
  Bind(MessageType_check_broker_data(data),
       LAMBDA ok : IF keys \subseteq DOMAIN data.m THEN Ok(TRUE)
                   ELSE LayoutError)

HandshakeAckMessage_check_broker_data(data) ==
  CheckKeys(data, {"type", "endpoint", "version"})

DataMessage_check_broker_data(data) ==
  CheckKeys(data, {"type", "topic", "@data-type", "data"})

ErrorMessage_check_broker_data(data) ==
  CheckKeys(data, {"type", "code", "context"})

\* cls.check_broker_data(data)
check_broker_data(cls, data) ==
  CASE cls \in DataKinds -> DataType_check_broker_data(data)
    [] cls = "HandshakeMessage" -> HandshakeMessage_check_broker_data(data)
    [] cls = "HandshakeAckMessage" ->
         HandshakeAckMessage_check_broker_data(data)
    [] cls = "DataMessage" -> DataMessage_check_broker_data(data)
    [] cls = "ErrorMessage" -> ErrorMessage_check_broker_data(data)

(***************************************************************************)
(* from_broker of the scalar classes.                                      *)
(***************************************************************************)
NoneType_from_broker(data) == Ok(None)

Boolean_from_broker(data) == Bind(GetItem(data, "data"), Boolean__init__)

Count_from_broker(data) == Bind(GetItem(data, "data"), Count__init__)

Integer_from_broker(data) == Bind(GetItem(data, "data"), Integer__init__)

Real_from_broker(data) == Bind(GetItem(data, "data"), Real__init__)

String_from_broker(data) == Bind(GetItem(data, "data"), String__init__)

Enum_from_broker(data) == Bind(GetItem(data, "data"), Enum__init__)

Address_from_broker(data) == Bind(GetItem(data, "data"), Address__init__)

\* The number of digits a str starts with.
RECURSIVE LeadingDigits(_)
LeadingDigits(s) ==
  IF s # <<>> /\ IsDigit(Head(s)) THEN 1 + LeadingDigits(Tail(s)) ELSE 0

\* Timespan.RE.fullmatch(s): the groups of (\d+)(ns|ms|s|min|h|d), or no
\* match.  A value that is not a str raises TypeError.
RE_fullmatch(s) ==
  IF s.j # "str" THEN Raise("TypeError")
  ELSE LET k == LeadingDigits(s.s)
           rest == SubSeq(s.s, k + 1, Len(s.s))
       IN  IF k >= 1 /\ \E u \in Units : UnitValue(u) = rest
             THEN Ok([matched |-> TRUE, number |-> SubSeq(s.s, 1, k),
                      unit |-> CHOOSE u \in Units : UnitValue(u) = rest])
             ELSE Ok([matched |-> FALSE])

\* mob[1], mob[2] of no match raise TypeError.
Timespan_from_broker(data) ==
  Bind(GetItem(data, "data"),
       LAMBDA d :
         Bind(RE_fullmatch(d),
              LAMBDA mob :
                IF ~mob.matched THEN Raise("TypeError")
                ELSE Timespan__init__(JStr(mob.number),
                                      JEnum("Unit", mob.unit))))

\* s.split('/', 1); a value without the method raises AttributeError.
SplitOnce(s) ==
  IF s.j # "str" THEN Raise("AttributeError")
  ELSE IF \E i \in 1..Len(s.s) : s.s[i] = "/"
    THEN LET i == CHOOSE i \in 1..Len(s.s) :
                    s.s[i] = "/" /\ \A k \in 1..(i - 1) : s.s[k] # "/"
         IN  Ok(<<SubSeq(s.s, 1, i - 1), SubSeq(s.s, i + 1, Len(s.s))>>)
    ELSE Ok(<<s.s>>)

\* Port.Proto(value)
Proto(value) ==
  IF \E p \in Protos : ProtoValue(p) = value
    THEN Ok(JEnum("Proto", CHOOSE p \in Protos : ProtoValue(p) = value))
    ELSE Raise("ValueError")

Port_from_broker(data) ==
  Bind(GetItem(data, "data"),
       LAMBDA d :
         Bind(SplitOnce(d),
              LAMBDA parts :
                IF Len(parts) < 2 THEN Raise("IndexError")
                ELSE Bind(Proto(parts[2]),
                          LAMBDA proto : Port__init__(JStr(parts[1]), proto))))

(***************************************************************************)
(* The two dispatch tables, from_broker of the containers, the event and   *)
(* the messages, and the module-level factory from_broker.                 *)
(***************************************************************************)
broker_typemap ==
  (<<"n", "o", "n", "e">> :> "NoneType")
    @@ (<<"b", "o", "o", "l", "e", "a", "n">> :> "Boolean")
    @@ (<<"c", "o", "u", "n", "t">> :> "Count")
    @@ (<<"i", "n", "t", "e", "g", "e", "r">> :> "Integer")
    @@ (<<"r", "e", "a", "l">> :> "Real")
    @@ (<<"s", "t", "r", "i", "n", "g">> :> "String")
    @@ (<<"e", "n", "u", "m", "-", "v", "a", "l", "u", "e">> :> "Enum")
    @@ (<<"a", "d", "d", "r", "e", "s", "s">> :> "Address")
    @@ (<<"p", "o", "r", "t">> :> "Port")
    @@ (<<"v", "e", "c", "t", "o", "r">> :> "Vector")
    @@ (<<"s", "e", "t">> :> "Set")
    @@ (<<"t", "a", "b", "l", "e">> :> "Table")

broker_messagemap ==
  (<<"d", "a", "t", "a", "-", "m", "e", "s", "s", "a", "g", "e">>
     :> "DataMessage")
    @@ (<<"e", "r", "r", "o", "r">> :> "ErrorMessage")

\* map[key] for a native key: a list or a dict is not hashable.
MapGet(map, key) ==
  IF key.j \in {"arr", "obj"} THEN Raise("TypeError")
  ELSE IF key.j = "str" /\ key.s \in DOMAIN map THEN Ok(map[key.s])
  ELSE Raise("KeyError")

RECURSIVE from_broker(_), FromBrokerAll(_, _), class_from_broker(_, _)
RECURSIVE SetFromBroker(_, _)
RECURSIVE from_broker_message(_), from_broker_data(_), TableFromBroker(_, _)

\* from_broker of every member in turn, up to the first that raises.
FromBrokerAll(elems, acc) ==
  IF elems = <<>> THEN Ok(acc)
  ELSE Bind(from_broker(Head(elems)),
            LAMBDA e : FromBrokerAll(Tail(elems), Append(acc, e)))

\* Whether hash(v) returns: a message has no __hash__, and the hash of a
\* Vector or a Set is built from the hashes of its members; the hash of a
\* Table looks at no member.
RECURSIVE Hashable(_)
Hashable(v) ==
  CASE v.kind \in MessageKinds -> FALSE
    [] v.kind \in {"Vector", "ZeekEvent", "Set"} ->
         \A i \in 1..Len(v.elements) : Hashable(v.elements[i])
    [] OTHER -> TRUE

\* s.add(e): a member that is equal to an earlier one and has its hash is
\* not added.  The hash of an object that holds a Table is the address of a
\* generator object, so such a member is kept here; Dedupes drops it for the
\* runs in which the two addresses coincide.
SetAdd(acc, e) ==
  IF Generators(e) = 0 /\ \E i \in 1..Len(acc) : PyEq(acc[i], e)
    THEN acc ELSE Append(acc, e)

\* The members after the members of a sequence are added to a set one by
\* one.
RECURSIVE AddAll(_, _)
AddAll(elems, acc) ==
  IF elems = <<>> THEN acc
  ELSE AddAll(Tail(elems), SetAdd(acc, Head(elems)))

\* d[k] = v: an equal key keeps its place and takes the new value.  A key
\* whose hash is an address is stored as a new entry here; TableDedupes
\* merges it for the runs in which the two addresses coincide.
SetItem(d, k, v) ==
  IF Generators(k) = 0 /\ \E i \in 1..Len(d) : PyEq(d[i].key, k)
    THEN [i \in 1..Len(d) |->
            IF PyEq(d[i].key, k) THEN [key |-> d[i].key, val |-> v] ELSE d[i]]
    ELSE Append(d, [key |-> k, val |-> v])

Vector_from_broker(data) ==
  Bind(GetItem(data, "data"),
       LAMBDA d :
         Bind(Iter(d),
              LAMBDA elems :
                Bind(FromBrokerAll(elems, <<>>), LAMBDA es : Ok(Vector(es)))))

\* The loop of Set.from_broker: each member is decoded and added, which
\* hashes it, before the next is decoded.
SetFromBroker(elems, acc) ==
  IF elems = <<>> THEN Ok(Set(acc))
  ELSE Bind(from_broker(Head(elems)),
            LAMBDA e :
              IF ~Hashable(e) THEN Raise("TypeError")
              ELSE SetFromBroker(Tail(elems), SetAdd(acc, e)))

Set_from_broker(data) ==
  Bind(GetItem(data, "data"),
       LAMBDA d : Bind(Iter(d), LAMBDA elems : SetFromBroker(elems, <<>>)))

\* The loop of Table.from_broker: the value of an entry is decoded before
\* its key, and the key is hashed when the entry is stored.
TableFromBroker(elems, acc) ==
  IF elems = <<>> THEN Ok(Table(acc))
  ELSE Bind(GetItem(Head(elems), "value"),
            LAMBDA v :
              Bind(from_broker(v),
                   LAMBDA val :
                     Bind(GetItem(Head(elems), "key"),
                          LAMBDA k :
                            Bind(from_broker(k),
                                 LAMBDA key :
                                   IF ~Hashable(key) THEN Raise("TypeError")
                                   ELSE TableFromBroker(
                                          Tail(elems),
                                          SetItem(acc, key, val))))))

Table_from_broker(data) ==
  Bind(GetItem(data, "data"),
       LAMBDA d : Bind(Iter(d), LAMBDA elems : TableFromBroker(elems, <<>>)))

\* data['data'][2]['data'][i]['data']
EventPart(data, i) ==
  Bind(GetItem(data, "data"),
       LAMBDA a :
         Bind(GetIndex(a, 2),
              LAMBDA b :
                Bind(GetItem(b, "data"),
                     LAMBDA c :
                       Bind(GetIndex(c, i), LAMBDA d : GetItem(d, "data")))))

ZeekEvent_from_broker(data) ==
  Bind(EventPart(data, 0),
       LAMBDA name :
         Bind(ZeekEvent__init__(name),
              LAMBDA event :
                Bind(EventPart(data, 1),
                     LAMBDA argdata :
                       Bind(Iter(argdata),
                            LAMBDA elems :
                              Bind(FromBrokerAll(elems, <<>>),
                                   LAMBDA args :
                                     Ok(ZeekEvent(event.name, args)))))))

\* ZeekEvent(name, *args) for a str name: every argument is to be an object
\* of the module.
ZeekEventOf(name, args) ==
  IF \E i \in 1..Len(args) : ~IsType(args[i])
    THEN RaiseMsg("TypeError", "requires brokertype arguments")
    ELSE Ok(ZeekEvent(name, args))

\* The layout test of from_vector without the test of the name.
EventLayoutAnyName(vec) ==
  /\ Len(vec.elements) = 3
  /\ IsVector(vec.elements[3])
  /\ Len(vec.elements[3].elements) = 2
  /\ IsVector(vec.elements[3].elements[2])

\* The conditions of the layout test of from_vector, in its order; len and
\* [] of a ZeekEvent see the inherited elements, which are empty.
EventLayout(vec) ==
  /\ Len(vec.elements) = 3
  /\ IsVector(vec.elements[3])
  /\ Len(vec.elements[3].elements) = 2
  /\ vec.elements[3].elements[1].kind = "String"
  /\ IsVector(vec.elements[3].elements[2])

\* ZeekEvent.from_vector(vec)
ZeekEvent_from_vector(vec) ==
  IF ~IsVector(vec)
    THEN RaiseMsg("TypeError", "cannot convert non-vector to Zeek event")
  ELSE IF ~EventLayout(vec)
    THEN RaiseMsg("TypeError", "invalid vector layout for Zeek event")
  ELSE ZeekEventOf(vec.elements[3].elements[1].value,
                   vec.elements[3].elements[2].elements)

HandshakeMessage_from_broker(data) == HandshakeMessage__init__(data)

HandshakeAckMessage_from_broker(data) ==
  Bind(GetItem(data, "endpoint"),
       LAMBDA e :
         Bind(GetItem(data, "version"),
              LAMBDA v : Ok(HandshakeAckMessage(e, v))))

DataMessage_from_broker(data) ==
  Bind(GetItem(data, "topic"),
       LAMBDA topic :
         Bind(GetItem(data, "@data-type"),
              LAMBDA tag :
                Bind(GetItem(data, "data"),
                     LAMBDA d :
                       Bind(from_broker(JObj(("@data-type" :> tag)
                                               @@ ("data" :> d))),
                            LAMBDA v : Ok(DataMessage(topic, v))))))

ErrorMessage_from_broker(data) ==
  Bind(GetItem(data, "code"),
       LAMBDA c :
         Bind(GetItem(data, "context"), LAMBDA ctx : Ok(ErrorMessage(c, ctx))))

\* cls.from_broker(data)
class_from_broker(cls, data) ==
  CASE cls = "NoneType" -> NoneType_from_broker(data)
    [] cls = "Boolean" -> Boolean_from_broker(data)
    [] cls = "Count" -> Count_from_broker(data)
    [] cls = "Integer" -> Integer_from_broker(data)
    [] cls = "Real" -> Real_from_broker(data)
    [] cls = "Timespan" -> Timespan_from_broker(data)
    [] cls = "String" -> String_from_broker(data)
    [] cls = "Enum" -> Enum_from_broker(data)
    [] cls = "Address" -> Address_from_broker(data)
    [] cls = "Port" -> Port_from_broker(data)
    [] cls = "Vector" -> Vector_from_broker(data)
    [] cls = "Set" -> Set_from_broker(data)
    [] cls = "Table" -> Table_from_broker(data)
    [] cls = "ZeekEvent" -> ZeekEvent_from_broker(data)
    [] cls = "HandshakeMessage" -> HandshakeMessage_from_broker(data)
    [] cls = "HandshakeAckMessage" -> HandshakeAckMessage_from_broker(data)
    [] cls = "DataMessage" -> DataMessage_from_broker(data)
    [] cls = "ErrorMessage" -> ErrorMessage_from_broker(data)

\* The first attempt of from_broker: the class that data['type'] names.
from_broker_message(data) ==
  Bind(GetItem(data, "type"),
       LAMBDA t :
         Bind(MapGet(broker_messagemap, t),
              LAMBDA typ :
                Bind(check_broker_data(typ, data),
                     LAMBDA ok : class_from_broker(typ, data))))

\* The second attempt: the class that data['@data-type'] names.
from_broker_data(data) ==
  Bind(GetItem(data, "@data-type"),
       LAMBDA t :
         Bind(MapGet(broker_typemap, t),
              LAMBDA typ :
                Bind(check_broker_data(typ, data),
                     LAMBDA ok : class_from_broker(typ, data))))

\* r, unless evaluating r has raised KeyError: then rest.
ExceptKeyError(r, rest) == IF r.ok \/ r.exc # "KeyError" THEN r ELSE rest

\* from_broker with the two attempts in the other order.
from_broker_TagFirst(data) ==
  IF data.j # "obj" THEN LayoutError
  ELSE ExceptKeyError(
         from_broker_data(data),
         ExceptKeyError(from_broker_message(data),
                        RaiseMsg("TypeError", "unrecognized Broker type")))

\* from_broker(data): a KeyError of the first attempt leads to the second,
\* a KeyError of the second is an unrecognized type.
from_broker(data) ==
  IF data.j # "obj" THEN LayoutError
  ELSE ExceptKeyError(
         from_broker_message(data),
         ExceptKeyError(from_broker_data(data),
                        RaiseMsg("TypeError", "unrecognized Broker type")))

\* F of the parsed text, the TypeError that replaces a JSONDecodeError
\* otherwise.
OfJSON(obj, F(_)) ==
  IF obj.ok THEN F(obj.val) ELSE RaiseMsg("TypeError", "cannot parse JSON data")

\* The member of a set of one member.
Only(S) == CHOOSE v \in S : TRUE

\* unserialize(data), the module-level factory: the text is parsed once.
unserialize(data) == Only({OfJSON(obj, from_broker) : obj \in {loads(data)}})

\* The handler of Type.unserialize without ValueError.
ExceptInvalidNoValueError(v) ==
  IF ~v.ok /\ v.exc \in {"IndexError", "KeyError"}
    THEN RaiseMsg("TypeError", "invalid data")
    ELSE v

\* An IndexError, KeyError or ValueError of from_broker becomes a
\* TypeError; any other exception passes.
ExceptInvalid(v) ==
  IF ~v.ok /\ v.exc \in {"IndexError", "KeyError", "ValueError"}
    THEN RaiseMsg("TypeError", "invalid data")
    ELSE v

\* cls.check_broker_data(obj), then cls.from_broker(obj) inside the handler.
CheckedFromBroker(cls, obj) ==
  IF ~check_broker_data(cls, obj).ok THEN check_broker_data(cls, obj)
  ELSE ExceptInvalid(class_from_broker(cls, obj))

\* What cls.unserialize makes of the outcome of json.loads.
UnserializeParsed(cls, obj) ==
  IF obj.ok THEN CheckedFromBroker(cls, obj.val)
  ELSE RaiseMsg("TypeError", "cannot parse JSON data")

\* cls.unserialize(data): the text is parsed once.
Type_unserialize(cls, data) ==
  Only({UnserializeParsed(cls, obj) : obj \in {loads(data)}})

\* json.dumps of the document, unless building it has raised.
DumpsOf(d) == IF d.j = "raise" THEN Raise(d.exc) ELSE Ok(dumps(d))

\* v.serialize()
serialize(v) == DumpsOf(to_broker(v))

(***************************************************************************)
(* from_py: an object from a native value, of the class given or of the    *)
(* class _python_typemap has for the type of the value.                    *)
(***************************************************************************)
\* The classes of the module; Type, DataType and MessageType are abstract.
AbstractClasses == {"Type", "DataType", "MessageType"}

Classes == DataKinds \cup MessageKinds \cup AbstractClasses

\* The type map with int mapped to Count.
python_typemapCount(data) ==
  CASE data.j = "null" -> Ok("NoneType")
    [] data.j = "bool" -> Ok("Boolean")
    [] data.j = "obj" -> Ok("Table")
    [] data.j = "int" -> Ok("Count")
    [] data.j = "ip" -> Ok("Address")
    [] data.j = "float" -> Ok("Real")
    [] data.j \in {"arr", "tuple"} -> Ok("Vector")
    [] data.j = "set" -> Ok("Set")
    [] data.j = "str" -> Ok("String")
    [] OTHER -> Raise("KeyError")

\* _python_typemap[type(data)]
python_typemap(data) ==
  CASE data.j = "null" -> Ok("NoneType")
    [] data.j = "bool" -> Ok("Boolean")
    [] data.j = "obj" -> Ok("Table")
    [] data.j = "int" -> Ok("Integer")
    [] data.j = "ip" -> Ok("Address")
    [] data.j = "float" -> Ok("Real")
    [] data.j \in {"arr", "tuple"} -> Ok("Vector")
    [] data.j = "set" -> Ok("Set")
    [] data.j = "str" -> Ok("String")
    [] OTHER -> Raise("KeyError")

\* typ(data): the constructor of the class with one argument.
Construct1(typ, data) ==
  CASE typ = "NoneType" -> Ok(None)
    [] typ = "Boolean" -> Boolean__init__(data)
    [] typ = "Count" -> Count__init__(data)
    [] typ = "Integer" -> Integer__init__(data)
    [] typ = "Real" -> Real__init__(data)
    [] typ = "String" -> String__init__(data)
    [] typ = "Enum" -> Enum__init__(data)
    [] typ = "Address" -> Address__init__(data)
    [] typ = "Port" -> Port__init__(data, JEnum("Proto", "TCP"))
    [] typ = "ZeekEvent" -> ZeekEvent__init__(data)
    [] typ = "HandshakeMessage" -> HandshakeMessage__init__(data)
    [] typ \in {"Timespan", "HandshakeAckMessage", "DataMessage",
                "ErrorMessage"} \cup AbstractClasses -> Raise("TypeError")

\* The class from_py instantiates: typ when given ("None" when not), the
\* one of the type map otherwise.
FromPyClass(data, typ) ==
  IF typ # "None"
    THEN IF typ \in Classes THEN Ok(typ)
         ELSE RaiseMsg("TypeError", "not a brokertype")
  ELSE IF python_typemap(data).ok THEN python_typemap(data)
  ELSE RaiseMsg("TypeError", "cannot map Python type")

RECURSIVE from_py(_, _, _), FromPyAll(_, _), FromPyItems(_, _, _)

\* from_py of every member in turn, up to the first that raises.
FromPyAll(elems, acc) ==
  IF elems = <<>> THEN Ok(acc)
  ELSE Bind(from_py(Head(elems), "None", TRUE),
            LAMBDA e : FromPyAll(Tail(elems), Append(acc, e)))

\* res._elements[from_py(key)] = from_py(val) for the items of a dict: the
\* value is converted before the key.
FromPyItems(m, keys, acc) ==
  IF keys = <<>> THEN Ok(Table(acc))
  ELSE Bind(from_py(m[Head(keys)], "None", TRUE),
            LAMBDA val :
              Bind(from_py(JStr(KeyText(Head(keys))), "None", TRUE),
                   LAMBDA key :
                     FromPyItems(m, Tail(keys), SetItem(acc, key, val))))

\* The keys of a dict, in sorted order.
DictKeys(m) ==
  LET RECURSIVE From(_)
      From(i) ==
        IF i > Len(SortedKeys) THEN <<>>
        ELSE (IF SortedKeys[i] \in DOMAIN m THEN <<SortedKeys[i]>> ELSE <<>>)
               \o From(i + 1)
  IN  From(1)

\* The part of from_py after the class is known.
FromPyAs(data, typ) ==
  CASE typ = "Table" ->
         IF data.j # "obj" THEN Raise("AttributeError")
         ELSE FromPyItems(data.m, DictKeys(data.m), <<>>)
    [] typ = "Vector" ->
         Bind(Iter(data),
              LAMBDA elems :
                Bind(FromPyAll(elems, <<>>), LAMBDA es : Ok(Vector(es))))
    [] typ = "Set" ->
         Bind(Iter(data),
              LAMBDA elems :
                Bind(FromPyAll(elems, <<>>),
                     LAMBDA es : Ok(Set(AddAll(es, <<>>)))))
    [] OTHER -> Construct1(typ, data)

\* from_py(data, typ, check_none); typ is "None" when no class is given.
from_py(data, typ, check_none) ==
  IF data.j = "null" /\ check_none THEN Ok(None)
  ELSE Bind(FromPyClass(data, typ), LAMBDA t : FromPyAs(data, t))

(***************************************************************************)
(* The objects the model constructs.  Every one is an object the           *)
(* constructors of the module accept.                                      *)
(***************************************************************************)
SeqsUpTo(S, n) == UNION {[1..k -> S] : k \in 0..n}

\* Sequences without two equal members: the members of a set, the keys of a
\* dict.
DistinctSeqs(S, n) ==
  {s \in SeqsUpTo(S, n) :
     \A i \in 1..Len(s) : \A j \in 1..Len(s) : i # j => ~PyEq(s[i], s[j])}

Strs == {<<>>, <<"a">>, <<"b">>, <<"a", "b">>}

Addrs == {<<"1", ".", "2", ".", "3", ".", "4">>, <<":", ":", "1">>}

Scalars ==
  {None}
    \cup {Boolean(b) : b \in BOOLEAN}
    \cup {Count(n) : n \in 0..MaxNum}
    \cup {Integer(n) : n \in (0 - MaxNum)..MaxNum}
    \cup {Real(h) : h \in {0 - 3, 0, 1, 2}}
    \cup {Timespan(n, u) : n \in {0 - 1, 0, 1}, u \in Units}
    \cup {String(s) : s \in Strs}
    \cup {Enum(s) : s \in Strs \ {<<>>}}
    \cup {Address(s) : s \in Addrs}
    \cup {Port(n, p) : n \in 1..MaxNum, p \in Protos}

\* The members of the containers of the model.
ElemPool ==
  {Integer(1), Integer(2), String(<<"a">>), Timespan(1, "S"),
   Port(MaxNum, "TCP"), Port(1, "UDP")}

KeyPool == {String(<<"a">>), Port(MaxNum, "TCP"), Port(1, "UDP")}

ValuePool == {Integer(1), Integer(2)}

Vectors == {Vector(es) : es \in SeqsUpTo(ElemPool, MaxLen)}

Sets == {Set(es) : es \in DistinctSeqs(ElemPool, MaxLen)}

Tables ==
  {Table([i \in 1..Len(ks) |-> [key |-> ks[i], val |-> vs[i]]]) :
     <<ks, vs>> \in
       {p \in DistinctSeqs(KeyPool, MaxLen) \X SeqsUpTo(ValuePool, MaxLen) :
          Len(p[1]) = Len(p[2])}}

\* Containers of containers.
NestPool ==
  {Vector(<<>>), Vector(<<Integer(1)>>), Set(<<>>), Table(<<>>),
   Table(<<[key |-> String(<<"a">>), val |-> Integer(1)]>>)}

NestedVectors == {Vector(es) : es \in SeqsUpTo(NestPool, MaxLen) \ {<<>>}}

ArgPool == {Integer(1), String(<<"a">>), Timespan(1, "S")}

ZeekEvents ==
  {ZeekEvent(n, as) : n \in {<<"a">>, <<"b">>}, as \in SeqsUpTo(ArgPool, MaxLen)}

DataValues ==
  Scalars \cup Vectors \cup Sets \cup Tables \cup NestedVectors \cup ZeekEvents

Messages ==
  {HandshakeMessage(ts) : ts \in SeqsUpTo({<<"a">>, <<"b">>}, MaxLen)}
    \cup {HandshakeAckMessage(JStr(e), JStr(v)) :
            e \in {<<"a">>, <<"b">>}, v \in {<<"1">>}}
    \cup {DataMessage(JStr(<<"a">>), d) :
            d \in {String(<<"a">>), Count(1), Timespan(1, "S"),
                   Vector(<<Integer(1)>>), ZeekEvent(<<"a">>, <<Integer(1)>>)}}
    \cup {ErrorMessage(JStr(c), JStr(ctx)) :
            c \in {<<"a">>, <<"b">>}, ctx \in {<<"a">>}}

\* Native Python values: True and 10.
Natives == {[kind |-> "bool", value |-> TRUE], [kind |-> "int", value |-> 10]}

(***************************************************************************)
(* Comparing two objects: x < y and y < x are evaluated.                   *)
(***************************************************************************)
NoRes == [op |-> "none"]

\* Timespans of a thousand and of two thousand of the smallest unit.
LongTimespans == {Timespan(1000, "NS"), Timespan(2000, "NS")}

InitOrder ==
  /\ x \in DataValues \cup LongTimespans
  /\ y \in DataValues \cup LongTimespans \cup Messages \cup Natives
  /\ z = None
  /\ op = "new"
  /\ res = NoRes

Compare ==
  /\ op = "new"
  /\ op' = "lt"
  /\ res' = [op |-> "lt", xy |-> PyLt(x, y), yx |-> PyLt(y, x),
             eq |-> PyEq(x, y)]
  /\ UNCHANGED <<x, y, z>>

NextOrder == Compare

SpecOrder == InitOrder /\ [][NextOrder]_vars

(***************************************************************************)
(* Comparing three objects: x < y, y < z and x < z are evaluated.          *)
(***************************************************************************)
OrderPool ==
  {None, Boolean(TRUE), Count(1), Integer(1), Integer(2), Real(1),
   String(<<"a">>), String(<<"b">>), Enum(<<"a">>),
   Timespan(1, "S"), Timespan(1, "MIN"), Timespan(0, "S")}
    \cup {Port(n, p) : n \in 1..MaxNum, p \in Protos}
    \cup {Vector(es) : es \in SeqsUpTo(ValuePool, MaxLen)}
    \cup {Set(es) : es \in DistinctSeqs(ValuePool, MaxLen)}
    \cup {Table(<<>>),
          Table(<<[key |-> String(<<"a">>), val |-> Integer(1)]>>),
          Table(<<[key |-> String(<<"a">>), val |-> Integer(2)]>>)}
    \cup {ZeekEvent(<<"a">>, <<>>), ZeekEvent(<<"b">>, <<>>)}

InitTrans ==
  /\ x \in OrderPool
  /\ y \in OrderPool
  /\ z \in OrderPool
  /\ op = "new"
  /\ res = NoRes

CompareThree ==
  /\ op = "new"
  /\ op' = "lt3"
  /\ res' = [op |-> "lt3", xy |-> PyLt(x, y), yz |-> PyLt(y, z),
             xz |-> PyLt(x, z)]
  /\ UNCHANGED <<x, y, z>>

NextTrans == CompareThree

SpecTrans == InitTrans /\ [][NextTrans]_vars

(***************************************************************************)
(* Hashing and emitting two objects.                                       *)
(***************************************************************************)
InitCanon ==
  /\ x \in DataValues
  /\ y \in DataValues
  /\ z = None
  /\ op = "new"
  /\ res = NoRes

\* hash(x) and, later, hash(y).
HashBoth ==
  /\ op = "new"
  /\ \E g1 \in AddressSeqs(x), g2 \in AddressSeqs(y) :
       res' = [op |-> "hash", eq |-> PyEq(x, y), hx |-> Hash(x, g1),
               hy |-> Hash(y, g2)]
  /\ op' = "hash"
  /\ UNCHANGED <<x, y, z>>

\* x.to_broker() and y.to_broker().
Emit ==
  /\ op = "new"
  /\ res' = [op |-> "wire", eq |-> PyEq(x, y), wx |-> to_broker(x),
             wy |-> to_broker(y)]
  /\ op' = "wire"
  /\ UNCHANGED <<x, y, z>>

NextCanon == HashBoth \/ Emit

SpecCanon == InitCanon /\ [][NextCanon]_vars

(***************************************************************************)
(* Encoding an object and decoding it again.  The members of a decoded Set *)
(* sit in a Python set, whose iteration order the hashes of the members    *)
(* decide: every order is an outcome.                                      *)
(***************************************************************************)
Range(s) == {s[i] : i \in DOMAIN s}

\* The orders a sequence can be put in.
Orders(s) ==
  {[i \in 1..Len(s) |-> s[p[i]]] :
     p \in {q \in [1..Len(s) -> 1..Len(s)] : Range(q) = 1..Len(s)}}

RECURSIVE Reorderings(_)
\* Every sequence whose i-th member is one of the reorderings of s[i].
ReorderEach(s) ==
  {c \in [1..Len(s) -> UNION {Reorderings(s[i]) : i \in 1..Len(s)}] :
     \A i \in 1..Len(s) : c[i] \in Reorderings(s[i])}

\* The members of s at the places K, in their order.
RECURSIVE Pick(_, _, _)
Pick(s, K, i) ==
  IF i > Len(s) THEN <<>>
  ELSE (IF i \in K THEN <<s[i]>> ELSE <<>>) \o Pick(s, K, i + 1)

\* The members of a set after the adding of s: a member whose hash is an
\* address and that is equal to an earlier one is added or not, as the two
\* addresses coincide or not.
Dedupes(s) ==
  {Pick(s, K, 1) :
     K \in {L \in SUBSET (1..Len(s)) :
              \A i \in (1..Len(s)) \ L :
                /\ Generators(s[i]) > 0
                /\ \E k \in L : k < i /\ PyEq(s[k], s[i])}}

\* The places of the sequence of keys ks that stay after the storing of
\* every key: a key whose hash is an address and that is equal to an earlier
\* one stays or not, as the two addresses differ or coincide.
KeptPlaces(ks) ==
  {L \in SUBSET (1..Len(ks)) :
     \A i \in (1..Len(ks)) \ L :
       /\ Generators(ks[i]) > 0
       /\ \E k \in L : k < i /\ PyEq(ks[k], ks[i])}

\* The entries of a dict after the storing of d: an entry that does not stay
\* gives its value to an earlier entry of an equal key.
TableDedupes(d) ==
  {Pick([k \in 1..Len(d) |->
           [key |-> d[k].key,
            val |-> d[CHOOSE i \in 1..Len(d) :
                        /\ i = k \/ (i \notin L /\ f[i] = k)
                        /\ \A j \in (1..Len(d)) \ L : f[j] = k => j <= i].val]],
        L, 1) :
     <<L, f>> \in
       UNION {{<<L, f>> :
                 f \in {g \in [(1..Len(d)) \ L -> L] :
                          \A i \in DOMAIN g :
                            g[i] < i /\ PyEq(d[g[i]].key, d[i].key)}} :
                L \in KeptPlaces(Keys(d))}}

\* The objects that differ from v only in the iteration order of the Sets
\* and in the members that a coincidence of addresses has left out.
Reorderings(v) ==
  CASE v.kind = "Vector" -> {Vector(es) : es \in ReorderEach(v.elements)}
    [] v.kind = "Set" ->
         {Set(es) :
            es \in UNION {Orders(c) :
                            c \in UNION {ReorderEach(d) :
                                           d \in Dedupes(v.elements)}}}
    [] v.kind = "Table" ->
         UNION {{Table([i \in 1..Len(ks) |-> [key |-> ks[i], val |-> vs[i]]]) :
                   ks \in ReorderEach([i \in 1..Len(d) |-> d[i].key]),
                   vs \in ReorderEach([i \in 1..Len(d) |-> d[i].val])} :
                  d \in TableDedupes(v.elements)}
    [] v.kind = "ZeekEvent" ->
         {ZeekEvent(v.name, as) : as \in ReorderEach(v.args)}
    [] v.kind = "DataMessage" ->
         {DataMessage(v.topic, d) : d \in Reorderings(v.data)}
    [] OTHER -> {v}

\* The outcomes of a decoding: the exception, or the object in any order of
\* its Sets.
Outcomes(r) == IF r.ok THEN {Ok(v) : v \in Reorderings(r.val)} ELSE {r}

\* F of the document, unless building it has raised.
OfDocument(d, F(_)) == IF d.j = "raise" THEN Raise(d.exc) ELSE F(d)

Init ==
  /\ x \in DataValues \cup Messages
  /\ y = None
  /\ z = None
  /\ op = "new"
  /\ res = NoRes

\* type(x).unserialize(x.serialize())
ClassUnserialize ==
  /\ op = "new"
  /\ \E data \in {serialize(x)} :
       \E r \in {Bind(data, LAMBDA d : Type_unserialize(x.kind, d))} :
         \E back \in Outcomes(r) :
           res' = [op |-> "class_unserialize", back |-> back]
  /\ op' = "class_unserialize"
  /\ UNCHANGED <<x, y, z>>

\* type(x).from_broker(x.to_broker())
ClassFromBroker ==
  /\ op = "new"
  /\ \E data \in {to_broker(x)} :
       \E r \in {OfDocument(data, LAMBDA d : class_from_broker(x.kind, d))} :
         \E back \in Outcomes(r) :
           res' = [op |-> "class_from_broker", back |-> back]
  /\ op' = "class_from_broker"
  /\ UNCHANGED <<x, y, z>>

\* unserialize(x.serialize()), the module-level factory.
Unserialize ==
  /\ op = "new"
  /\ \E data \in {serialize(x)} :
       \E r \in {Bind(data, unserialize)} :
         \E back \in Outcomes(r) :
           res' = [op |-> "unserialize", back |-> back]
  /\ op' = "unserialize"
  /\ UNCHANGED <<x, y, z>>

Next == ClassUnserialize \/ ClassFromBroker \/ Unserialize

Spec == Init /\ [][Next]_vars

(***************************************************************************)
(* Decoding and constructing from arbitrary input.  The input is a native  *)
(* value: a document json.loads can return, whose text (or the text short  *)
(* of its last token, which is no JSON text) is what the decoders are      *)
(* given, or an argument of a constructor or of from_py.                   *)
(***************************************************************************)
\* The tags of the type map, the two spellings of the Timespan tag, and a
\* tag of no class.
TimespanTag == <<"t", "i", "m", "e", "s", "t", "p", "a", "n">>

Tags == DOMAIN broker_typemap \cup {TimespanTag, <<"t", "i", "m", "e", "s", "p", "a", "n">>, <<"x">>}

PayloadStrs ==
  {<<>>, <<"1">>, <<"-", "1">>, <<"a">>, <<"1", ".", "5">>, <<"1", ".", "2", ".", "3", ".", "4">>, <<":", ":", "1">>, <<"n", "o", "t", "-", "a", "n", "-", "i", "p">>,
   <<"1", "/", "t", "c", "p">>, <<"0", "/", "t", "c", "p">>, <<"6", "5", "5", "3", "5", "/", "u", "d", "p">>, <<"6", "5", "5", "3", "6", "/", "t", "c", "p">>, <<"1", "/", "x">>, <<"a", "/", "t", "c", "p">>, <<"/", "t", "c", "p">>, <<"1", "/">>,
   <<"1", "s">>, <<"1", "x">>, <<"1", "m", "i", "n">>, <<"s">>}

\* The payloads of a scalar envelope: of every JSON type.
Payloads ==
  {JNull, JBool(TRUE), JBool(FALSE), JInt(0 - 1), JInt(0), JInt(1),
   JInt(65536), JFloat(3), JFloat(0 - 1), JArr(<<>>), JObj(EmptyDict)}
    \cup {JStr(s) : s \in PayloadStrs}

ScalarDocs == {Envelope(t, p) : t \in Tags, p \in Payloads}

\* Objects that lack one of the keys of an envelope, and documents that are
\* no object.
BareDocs ==
  {JObj(EmptyDict), JObj("data" :> JStr(<<"a">>)),
   JObj("@data-type" :> JStr(<<"c", "o", "u", "n", "t">>)),
   JObj("key" :> JInt(1)),
   JArr(<<>>), JArr(<<JStr(<<"a">>)>>), JArr(<<JStr(<<"a">>), JStr(<<"b">>)>>),
   JArr(<<JInt(1), JInt(2)>>), JArr(<<JArr(<<>>)>>), JInt(1), JStr(<<"a">>),
   JNull, JBool(TRUE)}

ErrorDoc ==
  JObj(("type" :> JStr(<<"e", "r", "r", "o", "r">>)) @@ ("code" :> JStr(<<"a">>))
         @@ ("context" :> JStr(<<"b">>)))

\* The members of the container documents.
MemberDocs ==
  {Envelope(<<"c", "o", "u", "n", "t">>, JInt(1)), Envelope(<<"c", "o", "u", "n", "t">>, JInt(2)),
   Envelope(<<"c", "o", "u", "n", "t">>, JInt(0 - 1)), Envelope(<<"s", "t", "r", "i", "n", "g">>, JStr(<<"a">>)),
   Envelope(<<"p", "o", "r", "t">>, JInt(1)), Envelope(<<"x">>, JInt(1)),
   Envelope(<<"v", "e", "c", "t", "o", "r">>, JArr(<<>>)), ErrorDoc, JInt(1)}

\* The entries of the table documents.
EntryDocs ==
  {JObj(("key" :> k) @@ ("value" :> v)) :
     k \in {Envelope(<<"c", "o", "u", "n", "t">>, JInt(1)), Envelope(<<"s", "t", "r", "i", "n", "g">>, JStr(<<"a">>)),
            ErrorDoc},
     v \in {Envelope(<<"c", "o", "u", "n", "t">>, JInt(1)), Envelope(<<"c", "o", "u", "n", "t">>, JInt(2)),
            Envelope(<<"c", "o", "u", "n", "t">>, JInt(0 - 1))}}
    \cup {JObj("key" :> Envelope(<<"c", "o", "u", "n", "t">>, JInt(1))),
          JObj("value" :> Envelope(<<"c", "o", "u", "n", "t">>, JInt(1))), JInt(1)}

ContainerDocs ==
  {Envelope(t, JArr(ms)) :
     t \in {<<"v", "e", "c", "t", "o", "r">>, <<"s", "e", "t">>}, ms \in SeqsUpTo(MemberDocs, MaxLen)}
    \cup {Envelope(<<"t", "a", "b", "l", "e">>, JArr(es)) : es \in SeqsUpTo(EntryDocs, MaxLen)}
    \cup {Envelope(t, p) :
            t \in {<<"v", "e", "c", "t", "o", "r">>, <<"s", "e", "t">>, <<"t", "a", "b", "l", "e">>},
            p \in {JStr(<<"a", "b">>), JObj("data" :> JInt(1)), JInt(1)}}

\* Containers in which a member or a key occurs twice, one whose hash is its
\* value and one whose hash is an address.
EmptyTableDoc == Envelope(<<"t", "a", "b", "l", "e">>, JArr(<<>>))

RepeatDocs ==
  {Envelope(<<"s", "e", "t">>, JArr(<<m, m>>)) :
     m \in {EmptyTableDoc,
            Envelope(<<"v", "e", "c", "t", "o", "r">>, JArr(<<EmptyTableDoc>>))}}
    \cup {Envelope(<<"t", "a", "b", "l", "e">>,
                   JArr(<<JObj(("key" :> k) @@ ("value" :> v)),
                          JObj(("key" :> k) @@ ("value" :> w))>>)) :
            k \in {EmptyTableDoc, Envelope(<<"s", "e", "t">>, JArr(<<>>))},
            v \in {Envelope(<<"c", "o", "u", "n", "t">>, JInt(1))},
            w \in {Envelope(<<"c", "o", "u", "n", "t">>, JInt(2))}}

\* The values of 'type' in the message documents; JNull stands for a
\* document without the key.
TypeFields ==
  {JNull, JStr(<<"a", "c", "k">>), JStr(<<"d", "a", "t", "a", "-", "m", "e", "s", "s", "a", "g", "e">>), JStr(<<"e", "r", "r", "o", "r">>), JStr(<<"x">>),
   JInt(1), JArr(<<>>)}

\* Every object over the keys of an acknowledgement and of an error.
FieldDocs ==
  {JObj([k \in ks \cup (IF t = JNull THEN {} ELSE {"type"}) |->
           IF k = "type" THEN t ELSE JStr(<<"a">>)]) :
     t \in TypeFields, ks \in SUBSET {"endpoint", "version", "code", "context"}}

\* The documents of the data messages, with and without their keys.
DataMessageDocs ==
  {JObj([k \in ks |->
           CASE k = "type" -> t
             [] k = "topic" -> JStr(<<"a">>)
             [] k = "@data-type" -> JStr(tag)
             [] k = "data" -> d]) :
     ks \in SUBSET {"type", "topic", "@data-type", "data"},
     t \in {JStr(<<"d", "a", "t", "a", "-", "m", "e", "s", "s", "a", "g", "e">>), JStr(<<"e", "r", "r", "o", "r">>), JStr(<<"x">>)},
     tag \in {<<"c", "o", "u", "n", "t">>, <<"x">>},
     d \in {JInt(1), JInt(0 - 1)}}

\* What to_broker emits for the objects of the model.
EmittedDocs ==
  {to_broker(v) :
     v \in Scalars \cup ZeekEvents \cup NestedVectors \cup Messages
             \cup {Set(<<Integer(1), Integer(2)>>),
                   Table(<<[key |-> String(<<"a">>), val |-> Integer(1)]>>)}}

\* An event document whose name or arguments have another shape.
EventDocs ==
  {Envelope(<<"v", "e", "c", "t", "o", "r">>,
            JArr(<<Envelope(<<"c", "o", "u", "n", "t">>, JInt(1)), Envelope(<<"c", "o", "u", "n", "t">>, JInt(1)),
                   Envelope(<<"v", "e", "c", "t", "o", "r">>, JArr(<<n, a>>))>>)) :
     n \in {Envelope(<<"s", "t", "r", "i", "n", "g">>, JStr(<<"a">>)), Envelope(<<"c", "o", "u", "n", "t">>, JInt(1))},
     a \in {Envelope(<<"v", "e", "c", "t", "o", "r">>, JArr(<<Envelope(<<"c", "o", "u", "n", "t">>, JInt(0 - 1))>>)),
            Envelope(<<"v", "e", "c", "t", "o", "r">>, JArr(<<ErrorDoc>>)),
            Envelope(<<"c", "o", "u", "n", "t">>, JInt(1))}}

Documents ==
  ScalarDocs \cup BareDocs \cup ContainerDocs \cup DataMessageDocs
    \cup FieldDocs \cup EmittedDocs \cup EventDocs \cup RepeatDocs

\* Arguments no JSON text denotes.
PythonValues ==
  {JTuple(<<>>), JTuple(<<JInt(1), JStr(<<"a">>)>>), JSet(<<JInt(1), JInt(2)>>),
   JSet(<<JInt(1), JComplex>>), JIP(<<"1", ".", "2", ".", "3", ".", "4">>), JIP(<<":", ":", "1">>), JComplex,
   JArr(<<JInt(1), JArr(<<JNull, JFloat(3)>>)>>),
   JArr(<<JInt(1), JComplex>>),
   JObj(("key" :> JInt(1)) @@ ("value" :> JSet(<<JStr(<<"a">>)>>))),
   JObj("key" :> JComplex)}

\* The arguments of from_py: a str is iterated when a Vector or a Set is
\* asked for, so the longer strs are left out.
FromPyArgs ==
  {p \in Payloads : p.j = "str" => Len(p.s) <= 3} \cup PythonValues

\* The second argument of the constructors of Port and Timespan, when one
\* is given: a member of either enum class, or the str of a member.
SecondArgs ==
  {JEnum("Proto", p) : p \in Protos} \cup {JEnum("Unit", u) : u \in Units}
    \cup {JStr(<<"t", "c", "p">>), JStr(<<"s">>)}

InitDecode ==
  /\ x \in Documents \cup Payloads \cup PythonValues
  /\ y = None
  /\ z = None
  /\ op = "new"
  /\ res = NoRes

\* The text of a document, and the text short of its last token.
TextsOf(d) == {dumps(d), SubSeq(dumps(d), 1, Len(dumps(d)) - 1)}

\* unserialize(data), the module-level factory, on a text.
DecodeText ==
  /\ op = "new"
  /\ x \in Documents
  /\ \E data \in TextsOf(x) :
       \E r \in {unserialize(data)} :
         \E back \in Outcomes(r) :
           res' = [op |-> "unserialize", whole |-> data = dumps(x),
                   back |-> back]
  /\ op' = "unserialize"
  /\ UNCHANGED <<x, y, z>>

\* from_broker(x), the module-level factory, on a document.
DecodeDocument ==
  /\ op = "new"
  /\ x \in Documents
  /\ \E r \in {from_broker(x)} :
       \E back \in Outcomes(r) :
         res' = [op |-> "from_broker", back |-> back]
  /\ op' = "from_broker"
  /\ UNCHANGED <<x, y, z>>

\* cls.unserialize(data) on a text.
ClassDecodeText ==
  /\ op = "new"
  /\ x \in Documents
  /\ \E cls \in DataKinds \cup MessageKinds, data \in TextsOf(x) :
       \E r \in {Type_unserialize(cls, data)} :
         \E back \in Outcomes(r) :
           res' = [op |-> "class_unserialize", cls |-> cls,
                   whole |-> data = dumps(x), back |-> back]
  /\ op' = "class_unserialize"
  /\ UNCHANGED <<x, y, z>>

\* cls.from_broker(x) on a document.
ClassDecodeDocument ==
  /\ op = "new"
  /\ x \in Documents
  /\ \E cls \in DataKinds \cup MessageKinds :
       \E r \in {class_from_broker(cls, x)} :
         \E back \in Outcomes(r) :
           res' = [op |-> "class_from_broker", cls |-> cls, back |-> back]
  /\ op' = "class_from_broker"
  /\ UNCHANGED <<x, y, z>>

\* Count(x), Address(x), Port(x), Port(x, proto), Timespan(x, unit)
New ==
  /\ op = "new"
  /\ x \in Payloads \cup PythonValues
  /\ \/ \E cls \in {"Count", "Address", "Port"} :
          res' = [op |-> "new", cls |-> cls, second |-> JNull,
                  back |-> Construct1(cls, x)]
     \/ \E second \in SecondArgs :
          res' = [op |-> "new", cls |-> "Port", second |-> second,
                  back |-> Port__init__(x, second)]
     \/ \E second \in SecondArgs :
          res' = [op |-> "new", cls |-> "Timespan", second |-> second,
                  back |-> Timespan__init__(x, second)]
  /\ op' = "new_done"
  /\ UNCHANGED <<x, y, z>>

\* from_py(x) and from_py(x, typ)
FromPy ==
  /\ op = "new"
  /\ x \in FromPyArgs
  /\ \E typ \in Classes \cup {"None", "int"} :
       \E r \in {from_py(x, typ, TRUE)} :
         \E back \in Outcomes(r) :
           res' = [op |-> "from_py", typ |-> typ, back |-> back]
  /\ op' = "from_py"
  /\ UNCHANGED <<x, y, z>>

NextDecode ==
  \/ DecodeText
  \/ DecodeDocument
  \/ ClassDecodeText
  \/ ClassDecodeDocument
  \/ New
  \/ FromPy

SpecDecode == InitDecode /\ [][NextDecode]_vars

(***************************************************************************)
(* to_py: from an object to its native rendering.  Timespan, Port and the  *)
(* messages return the object itself, so a rendering holds native values   *)
(* and objects.                                                            *)
(***************************************************************************)
\* a == b for two renderings.
RenderedEq(a, b) ==
  IF "kind" \in DOMAIN a THEN "kind" \in DOMAIN b /\ PyEq(a, b)
  ELSE "j" \in DOMAIN b /\ NativeEq(a, b)

\* Whether hash(a) returns for a rendering: a list, a set and a dict have no
\* hash.
RenderedHashable(a) ==
  IF "kind" \in DOMAIN a THEN Hashable(a) ELSE a.j \notin {"arr", "set", "dict"}

\* s.add(e) for a set of renderings.
RenderedAdd(acc, e) ==
  IF \E i \in 1..Len(acc) : RenderedEq(acc[i], e) THEN acc ELSE Append(acc, e)

\* d[k] = v for a dict of renderings.
RenderedSetItem(d, k, v) ==
  IF \E i \in 1..Len(d) : RenderedEq(d[i].key, k)
    THEN [i \in 1..Len(d) |->
            IF RenderedEq(d[i].key, k) THEN [key |-> d[i].key, val |-> v]
            ELSE d[i]]
    ELSE Append(d, [key |-> k, val |-> v])

RECURSIVE to_py(_), ToPyAll(_, _), ToPySet(_, _), ToPyItems(_, _)

\* [elem.to_py() for elem in self._elements]
ToPyAll(elems, acc) ==
  IF elems = <<>> THEN Ok(JArr(acc))
  ELSE Bind(to_py(Head(elems)),
            LAMBDA e : ToPyAll(Tail(elems), Append(acc, e)))

\* set(elem.to_py() for elem in self._elements): each rendering is hashed
\* when it is added.
ToPySet(elems, acc) ==
  IF elems = <<>> THEN Ok(JSet(acc))
  ELSE Bind(to_py(Head(elems)),
            LAMBDA e :
              IF ~RenderedHashable(e) THEN Raise("TypeError")
              ELSE ToPySet(Tail(elems), RenderedAdd(acc, e)))

\* res[key.to_py()] = val.to_py() for the items: the value is rendered
\* before the key, and the key is hashed when the item is stored.
ToPyItems(items, acc) ==
  IF items = <<>> THEN Ok(JDict(acc))
  ELSE Bind(to_py(Head(items).val),
            LAMBDA v :
              Bind(to_py(Head(items).key),
                   LAMBDA k :
                     IF ~RenderedHashable(k) THEN Raise("TypeError")
                     ELSE ToPyItems(Tail(items), RenderedSetItem(acc, k, v))))

\* ZeekEvent inherits Vector.to_py, over its inherited _elements.
to_py(v) ==
  CASE v.kind = "NoneType" -> Ok(JNull)
    [] v.kind = "Boolean" -> Ok(JBool(v.value))
    [] v.kind \in {"Count", "Integer"} -> Ok(JInt(v.value))
    [] v.kind = "Real" -> Ok(JFloat(v.value))
    [] v.kind \in {"String", "Enum", "Address"} -> Ok(JStr(v.value))
    [] v.kind \in {"Timespan", "Port"} -> Ok(v)
    [] v.kind \in {"Vector", "ZeekEvent"} -> ToPyAll(v.elements, <<>>)
    [] v.kind = "Set" -> ToPySet(v.elements, <<>>)
    [] v.kind = "Table" -> ToPyItems(v.elements, <<>>)
    [] v.kind \in MessageKinds -> Ok(v)

(***************************************************************************)
(* Recasting a Vector as an event: ZeekEvent.from_vector on objects of     *)
(* every shape, and on the Vector that decoding the text of an event, or   *)
(* of a data message that carries one, returns.                            *)
(***************************************************************************)
\* What the slot of the name and the slot of the arguments can hold.
NameSlots == {String(<<"a">>), Count(1), Enum(<<"a">>)}

ArgsSlots ==
  {Vector(<<>>), Vector(<<Integer(1)>>), Set(<<>>), Count(1),
   ZeekEvent(<<"q">>, <<Integer(1)>>)}

ThirdSlots ==
  {Vector(<<n, g>>) : n \in NameSlots, g \in ArgsSlots}
    \cup {Vector(<<>>), Vector(<<String(<<"a">>)>>),
          Vector(<<String(<<"a">>), Vector(<<>>), Count(1)>>), Count(1),
          Set(<<Integer(1), Integer(2)>>), ZeekEvent(<<"a">>, <<Integer(1)>>),
          ErrorMessage(JStr(<<"a">>), JStr(<<"b">>))}

\* Vectors of three members, and of fewer and more.
RecastVectors ==
  {Vector(<<a, Count(1), c>>) : a \in {Count(1), String(<<"z">>)}, c \in ThirdSlots}
    \cup {Vector(es) :
            es \in SeqsUpTo({Count(1), Vector(<<String(<<"a">>), Vector(<<>>)>>)},
                            MaxLen)}
    \cup {Vector(<<Count(1), Count(1), Vector(<<String(<<"a">>), Vector(<<>>)>>),
                   Count(1)>>)}

\* Objects that are no Vector, and native values.
NonVectors ==
  {None, String(<<"x">>), Count(1), Set(<<>>), Table(<<>>),
   DataMessage(JStr(<<"a">>), Vector(<<>>)), HandshakeMessage(<<>>)}
    \cup Natives

\* The events: of the arguments that decode on their own and of a Timespan,
\* and with a container or an event as an argument.
EventPool ==
  ZeekEvents
    \cup {ZeekEvent(<<>>, <<None>>),
          ZeekEvent(<<"a">>, <<Set(<<Integer(1), Integer(2)>>)>>),
          ZeekEvent(<<"a">>, <<Vector(<<Integer(1)>>), Count(1)>>),
          ZeekEvent(<<"a">>, <<ZeekEvent(<<"b">>, <<Integer(1)>>)>>)}

InitEvent ==
  /\ x \in RecastVectors \cup NonVectors \cup EventPool
  /\ y = None
  /\ z = None
  /\ op = "new"
  /\ res = NoRes

\* ZeekEvent.from_vector(x); the function assigns nothing to x.
FromVector ==
  /\ op = "new"
  /\ res' = [op |-> "from_vector", back |-> ZeekEvent_from_vector(x),
             before |-> x]
  /\ op' = "from_vector"
  /\ UNCHANGED <<x, y, z>>

\* ZeekEvent.from_vector(Vector.unserialize(x.serialize())) and
\* ZeekEvent.from_vector(unserialize(x.serialize())) for an event x
Recast ==
  /\ op = "new"
  /\ x.kind = "ZeekEvent"
  /\ \E module \in BOOLEAN, data \in {serialize(x)} :
       \E vec \in {Bind(data,
                        LAMBDA d : IF module THEN unserialize(d)
                                   ELSE Type_unserialize("Vector", d))} :
         \E r \in {Bind(vec, ZeekEvent_from_vector)} :
           \E back \in Outcomes(r) :
             res' = [op |-> "recast", module |-> module, back |-> back]
  /\ op' = "recast"
  /\ UNCHANGED <<x, y, z>>

\* ZeekEvent.from_vector(unserialize(DataMessage(topic, x).serialize()).data)
\* for an event x
RecastPayload ==
  /\ op = "new"
  /\ x.kind = "ZeekEvent"
  /\ \E data \in {serialize(DataMessage(JStr(<<"t">>), x))} :
       \E m \in {Bind(data, unserialize)} :
         \E r \in {Bind(m, LAMBDA v : ZeekEvent_from_vector(v.data))} :
           \E back \in Outcomes(r) :
             res' = [op |-> "recast_payload", back |-> back]
  /\ op' = "recast_payload"
  /\ UNCHANGED <<x, y, z>>

\* len(self) and self[idx] of a Vector, which a ZeekEvent inherits: they
\* look at the inherited _elements.
Vector__len__(self) == Len(self.elements)

Vector__getitem__(self, idx) ==
  IF idx \in 0..(Len(self.elements) - 1) THEN Ok(self.elements[idx + 1])
  ELSE Raise("IndexError")

\* The Vector that Vector.unserialize makes of the text of the event e.
EncodedVector(e) == Bind(serialize(e), LAMBDA d : Type_unserialize("Vector", d))

\* The inherited Vector operations on an event x, and the Vector that
\* Vector.unserialize(x.serialize()) returns; the order is taken against
\* another event and its Vector.
AsVector ==
  /\ op = "new"
  /\ x.kind = "ZeekEvent"
  /\ \E other \in {ZeekEvent(<<"b">>, <<>>), ZeekEvent(<<"a">>, <<Integer(2)>>)} :
       \E vec \in Outcomes(EncodedVector(x)) :
         res' = [op |-> "as_vector", vec |-> vec, other |-> other,
                 len |-> Vector__len__(x),
                 items |-> [i \in 0..2 |-> Vector__getitem__(x, i)],
                 py |-> to_py(x),
                 recast |-> ZeekEvent_from_vector(x),
                 lt |-> <<PyLt(x, other), PyLt(other, x)>>]
  /\ op' = "as_vector"
  /\ UNCHANGED <<x, y, z>>

NextEvent == FromVector \/ Recast \/ RecastPayload \/ AsVector

SpecEvent == InitEvent /\ [][NextEvent]_vars

(***************************************************************************)
(* Rendering a Set or a Table whose members are of many kinds.             *)
(***************************************************************************)
RenderPool ==
  {None, Boolean(TRUE), Count(1), Integer(1), Integer(2), Real(2),
   String(<<"a">>), Enum(<<"a">>), Address(<<"1", ".", "2", ".", "3", ".", "4">>),
   String(<<"1", ".", "2", ".", "3", ".", "4">>), Port(1, "TCP"), Vector(<<>>)}

RenderedContainers ==
  {Set(es) : es \in DistinctSeqs(RenderPool, MaxLen)}
    \cup {Table([i \in 1..Len(ks) |-> [key |-> ks[i], val |-> Integer(i)]]) :
            ks \in DistinctSeqs(RenderPool, MaxLen)}

InitNative ==
  /\ x \in RenderedContainers
  /\ y = None
  /\ z = None
  /\ op = "new"
  /\ res = NoRes

\* x.to_py()
ToPy ==
  /\ op = "new"
  /\ res' = [op |-> "to_py", back |-> to_py(x)]
  /\ op' = "to_py"
  /\ UNCHANGED <<x, y, z>>

NextNative == ToPy

SpecNative == InitNative /\ [][NextNative]_vars

(***************************************************************************)
(* Construction from a container of the caller.  x is the list, tuple, set *)
(* or dict the caller passes and keeps; y is the constructed object, with  *)
(* 'alias' telling whether the attribute of the object is the container of *)
(* the caller itself; z is the object as it was when constructed.          *)
(***************************************************************************)
\* The object, and whether its attribute is the argument itself.
Built(alias, v) == Ok([alias |-> alias, val |-> v])

\* elements or []
OrEmpty(elements, empty) == IF bool(elements) THEN elements ELSE empty

Vector__init__(elements) ==
  IF OrEmpty(elements, JArr(<<>>)).j \notin {"tuple", "arr"}
    THEN RaiseMsg("TypeError", "Vector initialization requires tuple or list data")
  ELSE IF \E i \in 1..Len(elements.a) : ~IsType(elements.a[i])
    THEN RaiseMsg("TypeError", "requires brokertype values")
  ELSE Built(bool(elements), Vector(elements.a))

Set__init__(elements) ==
  IF OrEmpty(elements, JSet(<<>>)).j # "set"
    THEN RaiseMsg("TypeError", "Set initialization requires set data")
  ELSE IF \E i \in 1..Len(elements.a) : ~IsType(elements.a[i])
    THEN RaiseMsg("TypeError", "requires brokertype values")
  ELSE Built(bool(elements), Set(elements.a))

Table__init__(elements) ==
  IF OrEmpty(elements, JDict(<<>>)).j # "dict"
    THEN RaiseMsg("TypeError", "Table initialization requires dict data")
  ELSE IF \E i \in 1..Len(elements.a) :
            ~IsType(elements.a[i].key) \/ ~IsType(elements.a[i].val)
    THEN RaiseMsg("TypeError", "requires brokertype values")
  ELSE Built(bool(elements), Table(elements.a))

\* ZeekEvent(name, *args): the arguments are copied into a new list.
ZeekEvent__init__Args(name, args) ==
  Bind(ZeekEventOf(name, args.a), LAMBDA e : Built(FALSE, e))

\* HandshakeMessage(topics): the topics are appended to a new list.
HandshakeMessage__init__Topics(topics) ==
  Bind(HandshakeMessage__init__(topics), LAMBDA m : Built(FALSE, m))

\* The members of the containers of the caller: objects, and a value that
\* is no object of the module.
OwnPool == {Integer(1), String(<<"a">>), Vector(<<>>)}

OwnMembers == OwnPool \cup {[kind |-> "int", value |-> 10]}

OwnEntries == {[key |-> k, val |-> v] : k \in {Integer(1), String(<<"a">>)},
                                        v \in {Integer(1), Integer(2)}}

ObjectContainers ==
  {JArr(a) : a \in SeqsUpTo(OwnMembers, MaxLen)}
    \cup {JTuple(a) : a \in SeqsUpTo(OwnMembers, MaxLen)}
    \cup {JSet(a) :
            a \in {s \in SeqsUpTo(OwnMembers, MaxLen) :
                     \A i \in 1..Len(s) : \A k \in 1..Len(s) :
                       i # k => s[i] # s[k]}}
    \cup {JDict(a) :
            a \in {s \in SeqsUpTo(OwnEntries, MaxLen) :
                     \A i \in 1..Len(s) : \A k \in 1..Len(s) :
                       i # k => s[i].key # s[k].key}}

TopicLists == {JArr(a) : a \in SeqsUpTo({JStr(<<"a">>), JStr(<<"b">>)}, MaxLen)}

\* The object as it is now: its attribute is the container of the caller
\* where the constructor has stored that container.
ObjectNow ==
  IF y.alias THEN [y.val EXCEPT !.elements = x.a] ELSE y.val

InitOwn ==
  /\ x \in ObjectContainers \cup TopicLists
  /\ y = None
  /\ z = None
  /\ op = "new"
  /\ res = NoRes

\* Vector(x), Set(x), Table(x), ZeekEvent('a', *x), HandshakeMessage(x)
Construct ==
  /\ op = "new"
  /\ \E r \in (IF x \in TopicLists /\ x.a # <<>>
                 THEN {HandshakeMessage__init__Topics(x)}
                 ELSE {Vector__init__(x), Set__init__(x), Table__init__(x),
                       HandshakeMessage__init__Topics(JArr(<<>>))}
                        \cup (IF x.j \in {"arr", "tuple"}
                                THEN {ZeekEvent__init__Args(<<"a">>, x)}
                                ELSE {})) :
       /\ r.ok
       /\ y' = r.val
       /\ z' = r.val.val
  /\ op' = "built"
  /\ res' = NoRes
  /\ UNCHANGED x

\* The caller changes its container: append and pop of a list, add and
\* clear of a set, a store into and clear of a dict.
Mutate ==
  /\ op = "built"
  /\ \/ /\ x.j = "arr"
        /\ \/ \E e \in (IF x \in TopicLists THEN {JStr(<<"b">>)} ELSE OwnPool) :
                x' = JArr(Append(x.a, e))
           \/ x.a # <<>> /\ x' = JArr(SubSeq(x.a, 1, Len(x.a) - 1))
     \/ /\ x.j = "set"
        /\ \/ \E e \in {Integer(2)} : x' = JSet(SetAdd(x.a, e))
           \/ x.a # <<>> /\ x' = JSet(<<>>)
     \/ /\ x.j = "dict"
        /\ \/ \E e \in {[key |-> String(<<"b">>), val |-> Integer(1)],
                        [key |-> Integer(1), val |-> Integer(0)]} :
                x' = JDict(SetItem(x.a, e.key, e.val))
           \/ x.a # <<>> /\ x' = JDict(<<>>)
  /\ op' = "mutated"
  /\ UNCHANGED <<y, z, res>>

\* serialize, hash and comparison of the object with itself: the methods
\* assign to no attribute.
Use ==
  /\ op = "built"
  /\ res' = [op |-> "use", text |-> serialize(ObjectNow),
             lt |-> IF IsDataType(ObjectNow) THEN PyLt(ObjectNow, ObjectNow)
                    ELSE "TypeError"]
  /\ op' = "used"
  /\ UNCHANGED <<x, y, z>>

\* The object is looked at again.
Observe ==
  /\ op \in {"built", "mutated", "used"}
  /\ res' = [op |-> "observe", after |-> op, before |-> z, now |-> ObjectNow]
  /\ op' = "observed"
  /\ UNCHANGED <<x, y, z>>

NextOwn == Construct \/ Mutate \/ Use \/ Observe

SpecOwn == InitOwn /\ [][NextOwn]_vars

(***************************************************************************)
(* The order laws.                                                         *)
(***************************************************************************)
\* C6: antisymmetry of the order.  For two data values x and y, x < y and
\* y < x never both hold.
Antisymmetric ==
  (res.op = "lt" /\ IsDataType(y)) =>
    ~(res.xy = "True" /\ res.yx = "True")

\* C7: transitivity of the order.  For data values x, y and z, x < y and
\* y < z imply x < z.
Transitive ==
  (res.op = "lt3" /\ res.xy = "True" /\ res.yz = "True") => res.xz = "True"

\* C8: totality of the order.  For two data values x and y that are not
\* equal under ==, exactly one of x < y and y < x holds.
Total ==
  (res.op = "lt" /\ IsDataType(y) /\ ~res.eq) =>
    ((res.xy = "True") # (res.yx = "True"))

\* The class names in lexical order.
KindOrder ==
  <<"Address", "Boolean", "Count", "Enum", "Integer", "NoneType", "Port",
    "Real", "Set", "String", "Table", "Timespan", "Vector", "ZeekEvent">>

KindRank(k) == CHOOSE i \in 1..Len(KindOrder) : KindOrder[i] = k

\* C9: fixed cross-kind ordering.  When x and y are data values of two
\* different kinds, x < y holds iff the kind name of x is lexically smaller
\* than the kind name of y, whatever the payloads; so Boolean < Count <
\* Integer < Real < Set < String < Timespan.
CrossKindOrder ==
  (res.op = "lt" /\ IsDataType(y) /\ x.kind # y.kind) =>
    /\ res.xy = PyBool(KindRank(x.kind) < KindRank(y.kind))
    /\ res.yx = PyBool(KindRank(y.kind) < KindRank(x.kind))

\* C9, witness: Boolean(True) < Count(0) was evaluated and holds, although
\* the payload of the Boolean is the larger one.
CrossKindOrderWitness ==
  /\ res.op = "lt"
  /\ x = Boolean(TRUE)
  /\ y = Count(0)
  /\ res.xy = "True"
  /\ res.yx = "False"

\* C10: cross-hierarchy comparison fails.  For a data value x and a y that is
\* not a data value (a message, or a native value such as True or 10), x < y
\* and y < x both raise TypeError and yield no boolean.
CrossHierarchyFails ==
  (res.op = "lt" /\ ~IsDataType(y)) =>
    (res.xy = "TypeError" /\ res.yx = "TypeError")

\* C10, witness: a port was compared with an error message, both ways, and
\* both comparisons raised.
CrossHierarchyFailsWitness ==
  /\ res.op = "lt"
  /\ x.kind = "Port"
  /\ y.kind = "ErrorMessage"
  /\ res.xy = "TypeError"
  /\ res.yx = "TypeError"

(***************************************************************************)
(* Hashing and canonical order.                                            *)
(***************************************************************************)
\* C3: hash/equality consistency.  For two data values x and y, x == y
\* implies hash(x) == hash(y), also for two separately constructed objects
\* and for hashes computed at different times.
HashConsistent == (res.op = "hash" /\ res.eq) => res.hx = res.hy

\* t is s in another order.
IsPermutation(s, t) ==
  /\ Len(s) = Len(t)
  /\ \E f \in [1..Len(s) -> 1..Len(s)] :
       /\ \A i \in 1..Len(s) : \A k \in 1..Len(s) : f[i] = f[k] => i = k
       /\ \A i \in 1..Len(s) : t[i] = s[f[i]]

\* x and y are two Sets, or two Tables, of the same members.
SameMembers(a, b) ==
  /\ a.kind = b.kind
  /\ a.kind \in {"Set", "Table"}
  /\ IsPermutation(a.elements, b.elements)

\* C4: construction-order independence.  Two Sets built from the same
\* members in different orders, and two Tables built from the same pairs in
\* different orders, are equal and have equal hashes.
OrderIndependent ==
  (res.op = "hash" /\ SameMembers(x, y)) => (res.eq /\ res.hx = res.hy)

\* No member of s is smaller than a member before it.
Ascending(s) ==
  \A i \in 1..Len(s) : \A k \in 1..Len(s) :
    i < k => PyLt(s[k], s[i]) # "True"

\* The document w lists the members of the Set v, or the pairs of the Table
\* v, in ascending order (of the members, of the keys).
EmitsAscending(v, w) ==
  \E s \in [1..Len(v.elements) -> 1..Len(v.elements)] :
    /\ \A i \in 1..Len(s) : \A k \in 1..Len(s) : s[i] = s[k] => i = k
    /\ Ascending([i \in 1..Len(s) |->
                    IF v.kind = "Set" THEN v.elements[s[i]]
                    ELSE v.elements[s[i]].key])
    /\ w.j = "obj"
    /\ w.m["data"] =
         JArr([i \in 1..Len(s) |->
                 IF v.kind = "Set" THEN to_broker(v.elements[s[i]])
                 ELSE JObj(("key" :> to_broker(v.elements[s[i]].key))
                             @@ ("value" :> to_broker(v.elements[s[i]].val)))])

\* C5: canonical wire output.  to_broker emits the members of a Set in
\* ascending order and the pairs of a Table in ascending key order, so two
\* equal Sets, or two equal Tables, serialize to the same output.
CanonicalWire ==
  (res.op = "wire" /\ x.kind \in {"Set", "Table"}) =>
    /\ EmitsAscending(x, res.wx)
    /\ (res.eq => res.wx = res.wy)

(***************************************************************************)
(* The round trips.                                                        *)
(***************************************************************************)
\* C1: for every object of every concrete class, type(v).unserialize(
\* v.serialize()) and type(v).from_broker(v.to_broker()) succeed and return
\* an object equal to v.
ClassRoundtrip ==
  res.op \in {"class_unserialize", "class_from_broker"} =>
    res.back.ok /\ PyEq(res.back.val, x)

\* C2: for every scalar and every Vector, Set and Table, the module-level
\* unserialize(v.serialize()) succeeds and returns an object equal to v.
ModuleRoundtrip ==
  res.op = "unserialize" /\ x.kind \in DataKinds \ {"ZeekEvent"} =>
    res.back.ok /\ PyEq(res.back.val, x)

(***************************************************************************)
(* Construction and decoding.                                              *)
(***************************************************************************)
RECURSIVE Parts(_), PartsOfAll(_)
\* The object v and every object it holds, at any depth.
Parts(v) ==
  {v} \cup
    CASE v.kind \in {"Vector", "Set"} -> PartsOfAll(v.elements)
      [] v.kind = "Table" ->
           PartsOfAll([i \in 1..Len(v.elements) |-> v.elements[i].key])
             \cup PartsOfAll([i \in 1..Len(v.elements) |-> v.elements[i].val])
      [] v.kind = "ZeekEvent" -> PartsOfAll(v.args)
      [] v.kind = "DataMessage" -> Parts(v.data)
      [] OTHER -> {}

PartsOfAll(s) == UNION {Parts(s[i]) : i \in 1..Len(s)}

\* The payload of o is in the domain of its kind.
ValidPayload(o) ==
  CASE o.kind = "Count" -> o.value >= 0
    [] o.kind = "Port" -> o.number \in 1..65535 /\ o.proto \in Protos
    [] o.kind = "Address" -> IsIPAddress(o.value)
    [] o.kind = "Timespan" -> o.unit \in Units
    [] OTHER -> TRUE

\* The arguments of a constructor are outside the domain of its class: a
\* number below zero for a Count, a number outside 1..65535 or something
\* that is no protocol for a Port, a str that is no address for an Address,
\* something that is no unit for a Timespan.
InvalidArguments(cls, first, second) ==
  CASE cls = "Count" -> int(first).ok /\ int(first).val < 0
    [] cls = "Port" ->
         \/ int(first).ok /\ int(first).val \notin 1..65535
         \/ second # JNull /\ ~IsMember(second, "Proto")
    [] cls = "Address" -> ~IsIPAddress(str(first))
    [] cls = "Timespan" -> ~IsMember(second, "Unit")

\* C11: eager construction validation.  By whichever path an object comes
\* to exist (a constructor, from_py, from_broker or unserialize of a class
\* or of the module), every Count in it has a value >= 0, every Port a
\* number in 1..65535 and a protocol of Port.Proto, every Address a value
\* ipaddress accepts, every Timespan a unit of Timespan.Unit; and a
\* constructor called with arguments outside the domain (Count(-1),
\* Port(0), Port(65536), Address('not-an-ip'), a Timespan with something
\* that is no unit) raises rather than returning an object.
EagerValidation ==
  /\ (res.op # "none" /\ res.back.ok) =>
       \A o \in Parts(res.back.val) : ValidPayload(o)
  /\ (res.op = "new" /\ InvalidArguments(res.cls, x, res.second)) =>
       ~res.back.ok

\* C11, witness: Port(65536, Port.Proto.TCP) was called and raised
\* ValueError.
EagerValidationWitness ==
  /\ res.op = "new"
  /\ res.cls = "Port"
  /\ x = JInt(65536)
  /\ res.second = JEnum("Proto", "TCP")
  /\ ~res.back.ok
  /\ res.back.exc = "ValueError"

\* C12: error normalization at the module-level decode entry point.  For
\* every text, unserialize(data) returns an object or raises TypeError; no
\* ValueError, IndexError, AttributeError or KeyError reaches the caller.
OnlyTypeError ==
  res.op = "unserialize" => (res.back.ok \/ res.back.exc = "TypeError")

\* The text s is a number, a "/" and a rest, the number outside 1..65535.
PortOutOfRange(s) ==
  \E i \in 1..Len(s) :
    /\ s[i] = "/"
    /\ AllDigits(SubSeq(s, 1, i - 1))
    /\ DigitsVal(SubSeq(s, 1, i - 1), 0) \notin 1..65535

\* The payload d has the JSON type the class emits, or is a str, and is
\* outside the domain of the class: for a Count a str that is no numeral or
\* a numeral or number below zero, for a Port a str with a number outside
\* 1..65535, for an Address a str that is no address.
DomainViolation(cls, d) ==
  CASE cls = "Count" ->
         \/ d.j = "str" /\ ~IsIntText(d.s)
         \/ d.j = "str" /\ IsIntText(d.s) /\ Head(d.s) = "-"
              /\ DigitsVal(Tail(d.s), 0) > 0
         \/ d.j = "int" /\ d.n < 0
    [] cls = "Port" -> d.j = "str" /\ PortOutOfRange(d.s)
    [] cls = "Address" -> d.j = "str" /\ ~IsIPAddress(d.s)
    [] OTHER -> FALSE

\* The document has the two keys DataType.check_broker_data requires.
HasEnvelopeKeys(d) ==
  d.j = "obj" /\ {"@data-type", "data"} \subseteq DOMAIN d.m

\* C13: class-level decode of a domain violation.  When the document has
\* the keys '@data-type' and 'data' and the payload is outside the domain of
\* the class K (a count that is no numeral or is negative, a port out of
\* range, an address that does not parse), K.unserialize(data) raises
\* TypeError 'invalid data for K' and returns nothing.
DomainViolationIsTypeError ==
  (/\ res.op = "class_unserialize"
   /\ res.whole
   /\ HasEnvelopeKeys(x)
   /\ DomainViolation(res.cls, x.m["data"])) =>
    /\ ~res.back.ok
    /\ res.back.exc = "TypeError"
    /\ res.back.msg = "invalid data"

\* C13, witness: Port.unserialize of an envelope with the payload
\* '65536/tcp' raised TypeError 'invalid data for Port'.
DomainViolationIsTypeErrorWitness ==
  /\ res.op = "class_unserialize"
  /\ res.whole
  /\ res.cls = "Port"
  /\ HasEnvelopeKeys(x)
  /\ x.m["data"] = JStr(<<"6", "5", "5", "3", "6", "/", "t", "c", "p">>)
  /\ ~res.back.ok
  /\ res.back.exc = "TypeError"
  /\ res.back.msg = "invalid data"

\* The scalar classes whose payload carries the value; NoneType.from_broker
\* does not look at the payload.
PayloadKinds == ScalarKinds \ {"NoneType"}

\* The payload d has the JSON type to_broker of the scalar class emits: a
\* boolean for Boolean, a whole number for Count and Integer, a number for
\* Real, a string for the others.
EmittedJSONType(cls, d) ==
  CASE cls = "Boolean" -> d.j = "bool"
    [] cls \in {"Count", "Integer"} -> d.j = "int"
    [] cls = "Real" -> d.j \in {"int", "float"}
    [] cls \in {"Timespan", "String", "Enum", "Address", "Port"} ->
         d.j = "str"

\* The document is an envelope of the scalar class cls, by its tag.
IsEnvelopeOf(d, cls) ==
  /\ HasEnvelopeKeys(d)
  /\ d.m["@data-type"].j = "str"
  /\ \/ /\ d.m["@data-type"].s \in DOMAIN broker_typemap
        /\ broker_typemap[d.m["@data-type"].s] = cls
     \/ cls = "Timespan" /\ d.m["@data-type"].s = TimespanTag

\* C14: a payload of the wrong JSON type is rejected.  For every scalar
\* class with a payload, from_broker and unserialize, of the class and of the module, of an
\* envelope whose 'data' has another JSON type than the one the class emits
\* (a string or a fractional number for a count or an integer, a number for
\* a string, a string for a boolean) raise; they return no coerced value.
WrongJSONTypeRejected ==
  \A cls \in PayloadKinds :
    (/\ \/ res.op \in {"class_unserialize", "class_from_broker"}
             /\ res.cls = cls
        \/ res.op \in {"unserialize", "from_broker"}
     /\ res.op \in {"class_unserialize", "unserialize"} => res.whole
     /\ IsEnvelopeOf(x, cls)
     /\ ~EmittedJSONType(cls, x.m["data"])) =>
      ~res.back.ok

\* The text the decoder was given.
DecodedText ==
  IF res.whole THEN dumps(x) ELSE SubSeq(dumps(x), 1, Len(dumps(x)) - 1)

\* The value of the key k of the object d is a str in the domain of map.
Names(d, k, map) ==
  k \in DOMAIN d.m /\ d.m[k].j = "str" /\ d.m[k].s \in DOMAIN map

\* C15: unrecognized type.  The module-level unserialize of a JSON object
\* whose 'type' is not in the message table and whose '@data-type' is not
\* in the tag table (an object with only a 'data' key among them) raises
\* TypeError 'unrecognized Broker type'; of a text that is not well-formed
\* JSON it raises TypeError 'cannot parse JSON data'; of a JSON array it
\* raises TypeError 'invalid data layout'.
UnrecognizedType ==
  res.op = "unserialize" =>
    /\ ~loads(DecodedText).ok =>
         res.back = RaiseMsg("TypeError", "cannot parse JSON data")
    /\ (loads(DecodedText).ok /\ loads(DecodedText).val.j = "arr") =>
         res.back = RaiseMsg("TypeError", "invalid data layout")
    /\ (/\ loads(DecodedText).ok
        /\ loads(DecodedText).val.j = "obj"
        /\ ~Names(loads(DecodedText).val, "type", broker_messagemap)
        /\ ~Names(loads(DecodedText).val, "@data-type", broker_typemap)) =>
         res.back = RaiseMsg("TypeError", "unrecognized Broker type")

\* What the message class that 'type' names makes of the document d: the
\* failure of its check_broker_data, or else its from_broker.
AsMessage(d) ==
  Bind(check_broker_data(broker_messagemap[d.m["type"].s], d),
       LAMBDA ok : class_from_broker(broker_messagemap[d.m["type"].s], d))

\* C16: dispatch precedence.  The module-level from_broker looks at 'type'
\* first: an object whose 'type' is in the message table is built as that
\* message, also when it has an '@data-type', and a failure of the check of
\* that message class is what the caller gets; an object is decoded as a
\* data value of the class its '@data-type' names only when it has no
\* 'type' or one that is not in the table.
TypeFirst ==
  (/\ res.op \in {"from_broker", "unserialize"}
   /\ res.op = "unserialize" => res.whole
   /\ x.j = "obj") =>
    /\ Names(x, "type", broker_messagemap) =>
         /\ res.back \in Outcomes(AsMessage(x))
         /\ res.back.ok => res.back.val.kind = broker_messagemap[x.m["type"].s]
         /\ ~check_broker_data(broker_messagemap[x.m["type"].s], x).ok =>
              res.back = LayoutError
    /\ (res.back.ok /\ res.back.val.kind \in DataKinds) =>
         /\ ~Names(x, "type", broker_messagemap)
         /\ Names(x, "@data-type", broker_typemap)
         /\ res.back.val.kind = broker_typemap[x.m["@data-type"].s]

\* C16, witness: from_broker of an object with 'type': 'error', without
\* 'code' and 'context' and with '@data-type': 'count' and 'data': 1 raised
\* the layout error of ErrorMessage; no Count was returned.
TypeFirstWitness ==
  /\ res.op = "from_broker"
  /\ x.j = "obj"
  /\ DOMAIN x.m = {"type", "@data-type", "data"}
  /\ x.m["type"] = JStr(<<"e", "r", "r", "o", "r">>)
  /\ x.m["@data-type"] = JStr(<<"c", "o", "u", "n", "t">>)
  /\ x.m["data"] = JInt(1)
  /\ res.back = LayoutError

\* C17: message dispatch covers all four envelopes.  The module-level
\* unserialize maps the bare array of a handshake to a HandshakeMessage, an
\* object with 'type': 'ack' to a HandshakeAckMessage, 'data-message' to a
\* DataMessage and 'error' to an ErrorMessage, so that for every message m
\* unserialize(m.serialize()) succeeds and returns an object equal to m.
MessageRoundtrip ==
  (res.op = "unserialize" /\ x.kind \in MessageKinds) =>
    res.back.ok /\ PyEq(res.back.val, x)

\* The keys check_broker_data of a message class requires of an object.
RequiredKeys(cls) ==
  CASE cls = "DataMessage" -> {"type", "topic", "@data-type", "data"}
    [] cls = "ErrorMessage" -> {"type", "code", "context"}
    [] cls = "HandshakeAckMessage" -> {"type", "endpoint", "version"}

\* The call decoded the document x as a message of the class cls, with its
\* check: cls.unserialize, or the module-level factory where 'type' names
\* cls.
DecodedAs(cls) ==
  \/ res.op = "class_unserialize" /\ res.whole /\ res.cls = cls
  \/ /\ res.op \in {"from_broker", "unserialize"}
     /\ res.op = "unserialize" => res.whole
     /\ x.j = "obj"
     /\ Names(x, "type", broker_messagemap)
     /\ broker_messagemap[x.m["type"].s] = cls

\* C18: required-key validation of message envelopes.  Decoding an object
\* as DataMessage raises the layout error when one of 'type', 'topic',
\* '@data-type', 'data' is missing, as ErrorMessage when one of 'type',
\* 'code', 'context' is missing, as HandshakeAckMessage when one of 'type',
\* 'endpoint', 'version' is missing; the check comes before construction,
\* so no message is returned for an incomplete object.
RequiredKeysChecked ==
  \A cls \in {"DataMessage", "ErrorMessage", "HandshakeAckMessage"} :
    (/\ DecodedAs(cls)
     /\ x.j = "obj"
     /\ ~(RequiredKeys(cls) \subseteq DOMAIN x.m)) =>
      res.back = LayoutError

\* C18, witness: DataMessage.unserialize of an object with 'type',
\* '@data-type' and 'data' and without 'topic' raised the layout error.
RequiredKeysCheckedWitness ==
  /\ res.op = "class_unserialize"
  /\ res.whole
  /\ res.cls = "DataMessage"
  /\ x.j = "obj"
  /\ DOMAIN x.m = {"type", "@data-type", "data"}
  /\ res.back = LayoutError

\* C19: event recast round trip.  For every ZeekEvent e, of any name and
\* any data values as arguments, decoding e.serialize() as a Vector and
\* passing the Vector to ZeekEvent.from_vector succeeds and returns an
\* event equal to e; so does recasting the payload of the decoded text of a
\* DataMessage that carries e.
EventRecastRoundtrip ==
  res.op \in {"recast", "recast_payload"} =>
    res.back.ok /\ PyEq(res.back.val, x)

\* The Vector v has the shape [_, _, Vector[String, Vector]].
EventShape(v) ==
  /\ Len(v.elements) = 3
  /\ IsVector(v.elements[3])
  /\ Len(v.elements[3].elements) = 2
  /\ v.elements[3].elements[1].kind = "String"
  /\ IsVector(v.elements[3].elements[2])

\* C20: event recast validation.  ZeekEvent.from_vector raises TypeError
\* for every argument that is no Vector and for every Vector that is not of
\* the shape [_, _, Vector[String, Vector]] (not three members, the third
\* no Vector of two members, the name no String, the arguments no Vector);
\* whether it raises or returns, the Vector it was given is as before.
RecastValidation ==
  res.op = "from_vector" =>
    /\ (~IsVector(x) \/ ~EventShape(x)) =>
         ~res.back.ok /\ res.back.exc = "TypeError"
    /\ res.before = x

\* C20, witness: from_vector of a Vector of three members whose third is
\* [Count(1), Vector()], the name slot no String, raised TypeError 'invalid
\* vector layout for Zeek event'.
RecastValidationWitness ==
  /\ res.op = "from_vector"
  /\ x = Vector(<<Count(1), Count(1), Vector(<<Count(1), Vector(<<>>)>>)>>)
  /\ res.back = RaiseMsg("TypeError", "invalid vector layout for Zeek event")
  /\ res.before = x


(***************************************************************************)
(* Containers: duplicates, members, native renderings.                     *)
(***************************************************************************)
\* The document d is an envelope of the tag whose payload is a list.
IsListEnvelope(d, tag) ==
  /\ d.j = "obj"
  /\ DOMAIN d.m = {"@data-type", "data"}
  /\ d.m["@data-type"] = JStr(tag)
  /\ d.m["data"].j = "arr"

\* The call decoded the whole of the document x: with the module-level
\* factory, or with the decoder of the class cls.
DecodedWith(cls) ==
  \/ res.op = "from_broker"
  \/ res.op = "unserialize" /\ res.whole
  \/ res.op = "class_from_broker" /\ res.cls = cls
  \/ res.op = "class_unserialize" /\ res.whole /\ res.cls = cls

\* The document m alone decodes to an object that has a hash.
DecodesToMember(m) == from_broker(m).ok /\ Hashable(from_broker(m).val)

\* The document e is an entry whose key and value decode.
DecodesToEntry(e) ==
  /\ e.j = "obj"
  /\ DOMAIN e.m = {"key", "value"}
  /\ DecodesToMember(e.m["key"])
  /\ from_broker(e.m["value"]).ok

\* The place of the last entry of es that has the key of the entry at i.
LastOccurrence(es, i) ==
  CHOOSE j \in i..Len(es) :
    /\ es[j].m["key"] = es[i].m["key"]
    /\ \A k \in (j + 1)..Len(es) : es[k].m["key"] # es[i].m["key"]

\* The places of the members of s that are equal to v.
PlacesOf(s, v) == {k \in 1..Len(s) : PyEq(s[k], v)}

\* C21: duplicates on decode are overwritten, not rejected.  Decoding a set
\* document in which a member occurs twice succeeds and gives a Set that
\* holds that member once; decoding a table document in which a key occurs
\* several times succeeds and gives a Table with one entry for the key, whose
\* value is the value of the last occurrence.
DuplicatesOverwritten ==
  /\ (/\ IsListEnvelope(x, <<"s", "e", "t">>)
      /\ DecodedWith("Set")
      /\ \A i \in 1..Len(x.m["data"].a) : DecodesToMember(x.m["data"].a[i])) =>
       /\ res.back.ok
       /\ \A i \in 1..Len(x.m["data"].a) : \A j \in 1..Len(x.m["data"].a) :
            (i < j /\ x.m["data"].a[i] = x.m["data"].a[j]) =>
              Cardinality(PlacesOf(res.back.val.elements,
                                   from_broker(x.m["data"].a[i]).val)) = 1
  /\ (/\ IsListEnvelope(x, <<"t", "a", "b", "l", "e">>)
      /\ DecodedWith("Table")
      /\ \A i \in 1..Len(x.m["data"].a) : DecodesToEntry(x.m["data"].a[i])) =>
       /\ res.back.ok
       /\ \A i \in 1..Len(x.m["data"].a) : \A j \in 1..Len(x.m["data"].a) :
            (i < j /\ x.m["data"].a[i].m["key"] = x.m["data"].a[j].m["key"]) =>
              \E k \in 1..Len(res.back.val.elements) :
                /\ PlacesOf(Keys(res.back.val.elements),
                            from_broker(x.m["data"].a[i].m["key"]).val) = {k}
                /\ PyEq(res.back.val.elements[k].val,
                        from_broker(
                          x.m["data"].a[LastOccurrence(x.m["data"].a, i)]
                            .m["value"]).val)

\* The classes of the values of _python_typemap.
DefaultKinds ==
  {"NoneType", "Boolean", "Integer", "Real", "String", "Address", "Vector",
   "Set", "Table"}

\* The native value a, or one it holds at any depth, is of a type that is no
\* key of _python_typemap.
RECURSIVE HasUnmapped(_)
HasUnmapped(a) ==
  CASE a.j \in {"arr", "tuple", "set"} ->
         \E i \in 1..Len(a.a) : HasUnmapped(a.a[i])
    [] a.j = "obj" -> \E k \in DOMAIN a.m : HasUnmapped(a.m[k])
    [] OTHER -> a.j \notin {"null", "bool", "int", "ip", "float", "str"}

\* The objects v holds at any depth, v itself left out.
Below(v) ==
  CASE v.kind \in {"Vector", "Set"} -> PartsOfAll(v.elements)
    [] v.kind = "Table" ->
         PartsOfAll(Keys(v.elements))
           \cup PartsOfAll([i \in 1..Len(v.elements) |-> v.elements[i].val])
    [] OTHER -> {}

\* C22: the default native mapping is closed.  from_py(x) without a class
\* returns only NoneType, Boolean, Integer, Real, String, Address, Vector,
\* Set or Table objects, at every depth (the members of a composite are
\* mapped by default also when a class is given for the composite), and no
\* Count, Port, Enum or Timespan; it raises TypeError 'cannot map Python
\* type' when x or a value in x is of a type without mapping; a Count comes
\* only from from_py(x, Count).
DefaultMappingClosed ==
  res.op = "from_py" =>
    /\ (res.typ = "None" /\ res.back.ok) =>
         \A o \in Parts(res.back.val) : o.kind \in DefaultKinds
    /\ res.back.ok => \A o \in Below(res.back.val) : o.kind \in DefaultKinds
    /\ (res.typ = "None" /\ HasUnmapped(x)) =>
         res.back = RaiseMsg("TypeError", "cannot map Python type")
    /\ (res.typ = "None" /\ ~HasUnmapped(x)) => res.back.ok
    /\ (res.back.ok /\ res.back.val.kind = "Count") => res.typ = "Count"
    /\ (res.typ = "Count" /\ x.j = "int" /\ x.n >= 0) =>
         res.back = Ok(Count(x.n))

\* C22, witness: from_py of a list that holds an int and a list, without a
\* class, returned a Vector of an Integer and a Vector.
DefaultMappingClosedWitness ==
  /\ res.op = "from_py"
  /\ res.typ = "None"
  /\ x.j = "arr"
  /\ Len(x.a) = 2
  /\ x.a[1].j = "int"
  /\ x.a[2].j = "arr"
  /\ res.back.ok
  /\ res.back.val.kind = "Vector"
  /\ res.back.val.elements[1] = Integer(x.a[1].n)
  /\ res.back.val.elements[2].kind = "Vector"

\* C23: immutability and exclusive ownership.  What to_broker, == and <
\* observe of a constructed Vector, Set, Table, ZeekEvent or
\* HandshakeMessage is, after any later operation (a change the caller makes
\* to the list, set or dict that was passed to the constructor, or a
\* serialize and a comparison of the object), what it was when the object
\* was constructed.
ContentFixed ==
  res.op = "observe" =>
    /\ PyEq(res.now, res.before)
    /\ to_broker(res.now) = to_broker(res.before)

(***************************************************************************)
(* The order of the composites, of Timespans and of Ports.                 *)
(***************************************************************************)
\* The lexicographic order of two sequences from position i on: the first
\* position at which the members differ decides; without one, the shorter
\* sequence is the smaller.
RECURSIVE LexLt(_, _, _)
LexLt(a, b, i) ==
  IF i > Len(a) \/ i > Len(b) THEN Len(a) < Len(b)
  ELSE IF ~PyEq(a[i], b[i]) THEN PyLt(a[i], b[i]) = "True"
  ELSE LexLt(a, b, i + 1)

\* The keys and values of a Table as one sequence, in the order ks of the
\* keys: key, value, key, value.
EntrySeq(d, ks) ==
  [i \in 1..(2 * Len(ks)) |->
     IF i % 2 = 1 THEN ks[(i + 1) \div 2] ELSE Lookup(d, ks[i \div 2])]

\* The sequence the order of a composite goes by: the members of a Vector
\* as constructed, the members of a Set sorted, the entries of a Table
\* sorted by key.
OrderSeq(v) ==
  CASE v.kind = "Vector" -> v.elements
    [] v.kind = "Set" -> sorted(v.elements).val
    [] v.kind = "Table" -> EntrySeq(v.elements, sorted(Keys(v.elements)).val)

\* C24: composite ordering is lexicographic.  For two Vectors, two Sets or
\* two Tables x and y, x < y holds iff at the first position where the
\* sequences differ the member of x is the smaller, or all compared
\* positions tie and x is the shorter; so a later position does not decide
\* once an earlier one has the greater member in x, a strict prefix is the
\* smaller, and x < x is false.
LexicographicOrder ==
  (res.op = "lt" /\ x.kind = y.kind /\ x.kind \in {"Vector", "Set", "Table"}) =>
    /\ res.xy = PyBool(LexLt(OrderSeq(x), OrderSeq(y), 1))
    /\ res.yx = PyBool(LexLt(OrderSeq(y), OrderSeq(x), 1))

\* The duration of a Timespan as <<whole milliseconds, nanoseconds>>, with
\* 1 ms = 1,000,000 ns, 1 s = 1000 ms, 1 min = 60 s, 1 h = 60 min and
\* 1 d = 24 h.
Duration(t) ==
  CASE t.unit = "NS" -> <<t.value \div 1000000, t.value % 1000000>>
    [] t.unit = "MS" -> <<t.value, 0>>
    [] t.unit = "S" -> <<t.value * 1000, 0>>
    [] t.unit = "MIN" -> <<t.value * 60 * 1000, 0>>
    [] t.unit = "H" -> <<t.value * 60 * 60 * 1000, 0>>
    [] t.unit = "D" -> <<t.value * 24 * 60 * 60 * 1000, 0>>

Shorter(a, b) == a[1] < b[1] \/ (a[1] = b[1] /\ a[2] < b[2])

\* C25: Timespan ordering follows duration.  For two Timespans x and y,
\* x < y holds iff the duration of x, in a common unit, is smaller than the
\* duration of y; so 1 ns < 1 ms < 1 s < 1 min < 1 h < 1 d and
\* 1000 ns < 1 ms.
TimespanOrder ==
  (res.op = "lt" /\ x.kind = "Timespan" /\ y.kind = "Timespan") =>
    /\ res.xy = PyBool(Shorter(Duration(x), Duration(y)))
    /\ res.yx = PyBool(Shorter(Duration(y), Duration(x)))

\* C26: Port ordering is by protocol first, number second.  With the rank
\* ? < tcp < udp < icmp, for two Ports x and y, x < y holds iff the protocol
\* of x ranks lower, or the protocols are equal and the number of x is the
\* smaller; a Port of a higher-ranked protocol is never the smaller.
PortOrder ==
  (res.op = "lt" /\ x.kind = "Port" /\ y.kind = "Port") =>
    /\ res.xy = PyBool(\/ ProtoIndex(x.proto) < ProtoIndex(y.proto)
                       \/ x.proto = y.proto /\ x.number < y.number)
    /\ res.yx = PyBool(\/ ProtoIndex(y.proto) < ProtoIndex(x.proto)
                       \/ x.proto = y.proto /\ y.number < x.number)

\* The members of a Vector or Set, the keys and values of a Table.
MembersOf(o) ==
  CASE o.kind \in {"Vector", "Set"} -> Range(o.elements)
    [] o.kind = "Table" ->
         Range(Keys(o.elements))
           \cup {o.elements[i].val : i \in 1..Len(o.elements)}
    [] OTHER -> {}

\* C27: composites decoded from the wire hold only data values.  Every
\* member of a Vector or Set and every key and value of a Table that
\* unserialize or from_broker returns, at any depth and also inside the
\* payload of a DataMessage, is a data value; a document with a message
\* 'type' is not accepted as a member of a composite.
OnlyDataMembers ==
  (/\ res.op \in {"unserialize", "from_broker", "class_unserialize",
                  "class_from_broker"}
   /\ res.back.ok) =>
    \A o \in Parts(res.back.val) : \A m \in MembersOf(o) : IsDataType(m)

\* C28: a decoder of a class accepts only its own tag.  For every class K of
\* data values, K.unserialize of an envelope whose '@data-type' is not the
\* tag of K raises the layout error and decodes nothing as K.
OwnTagOnly ==
  (/\ res.op = "class_unserialize"
   /\ res.whole
   /\ res.cls \in DataKinds
   /\ HasEnvelopeKeys(x)
   /\ ~IsEnvelopeOf(x, res.cls)
   /\ ~(res.cls = "ZeekEvent" /\ IsEnvelopeOf(x, "Vector"))) =>
    res.back = LayoutError

\* C29: to_py keeps the number of members.  to_py of a Set or of a Table
\* returns, and the set or dict it returns has as many members as the Set or
\* Table, also when members of different kinds have equal renderings.
RenderingKeepsMembers ==
  res.op = "to_py" =>
    /\ res.back.ok
    /\ Len(res.back.val.a) = Len(x.elements)

\* C30: a ZeekEvent behaves as the Vector it encodes.  For an event x and
\* v = Vector.unserialize(x.serialize()): len(x) = len(v) = 3, x[i] == v[i],
\* x.to_py() == v.to_py(), ZeekEvent.from_vector(x) returns an event equal
\* to x, and x is ordered against another event as v is against the Vector
\* of that event.
EventAsVector ==
  (res.op = "as_vector" /\ res.vec.ok /\ EncodedVector(res.other).ok) =>
    /\ res.len = 3
    /\ Vector__len__(res.vec.val) = 3
    /\ \A i \in 0..2 :
         /\ res.items[i].ok
         /\ PyEq(res.items[i].val, Vector__getitem__(res.vec.val, i).val)
    /\ res.py = to_py(res.vec.val)
    /\ res.recast.ok
    /\ PyEq(res.recast.val, x)
    /\ res.lt = <<PyLt(res.vec.val, EncodedVector(res.other).val),
                  PyLt(EncodedVector(res.other).val, res.vec.val)>>
====
